---- MODULE Spec2Model ----
(***************************************************************************)
(* Model of the tickertock data-access layer: the Finnhub client           *)
(* (src/src/lib/finnhub.ts), its request accounting and API-key store      *)
(* (src/src/lib/config.ts), the localStorage helpers (src/unnamed/part_003)*)
(* and the Home page's API-key handler (src/unnamed/part_004).             *)
(*                                                                         *)
(* Time is Date.now() in milliseconds.  An async function is modelled by   *)
(* two steps: the synchronous prefix up to its first await on the network, *)
(* and the continuation that runs when the upstream response arrives.      *)
(***************************************************************************)
EXTENDS Integers, Sequences, FiniteSets, TLC

\* ------------------------------------------------------------------ bounds
\* Upper bounds on requestCount.total: where every operation of the
\* application interleaves, where a part of the layer runs, and where
\* trackRequest is called on its own.  As every upstream call is counted
\* first, they also bound the calls in flight.
MaxRequestsAll == 2
MaxRequests == 4
MaxRecords == 62

\* ------------------------------------------------------- input alphabets
Symbols == {"AAPL"}
Queries == {"aa"}
\* The labels getHistoricalData tells apart, and one it does not know.
TimeRanges == {"1D", "1W", "1M", "3M", "1Y", "All Time", "5D"}
CustomKeys == {"k1"}
\* Current prices (data.c) in cents.
Prices == {200, 400}
\* A field missing from the upstream body (JavaScript undefined), and the
\* result of arithmetic on it (NaN).
undefined == 0 - 1
NaN == 0 - 2

\* ------------------------------------------------------------- constants
DEFAULT_API_KEY == "d0hvls1r01qji78qqe90d0hvls1r01qji78qqe9g"
STORAGE_KEY == "tickertock_finnhub_api_key"
CACHE_EXPIRY_QUOTE == 60 * 1000
CACHE_EXPIRY_SEARCH == 5 * 60 * 1000
CACHE_EXPIRY_HISTORICAL == 60 * 60 * 1000
\* trackRequest: the length of the accounting window.
MINUTE_MS == 60 * 1000
\* getRemainingRequests: the free-tier limit.
LIMIT == 60

VARIABLES
    now,              \* Date.now()
    window,           \* typeof window !== 'undefined' (fixed for a run)
    loadDay,          \* the local calendar day the page was loaded on, in
                      \* days since 1 January 1970 (fixed for a run)
    localStorage,     \* the browser's storage: a function on the stored names
    FINNHUB_API_KEY,  \* config.ts: export let FINNHUB_API_KEY
    API_KEY,          \* finnhub.ts: const API_KEY = FINNHUB_API_KEY
    currentApiKey,    \* Home: useState currentApiKey
    requestCount,     \* config.ts: {total, minute, lastReset}
    quoteCache,       \* finnhub.ts: symbol -> {data, timestamp}
    searchCache,      \* finnhub.ts: query -> {data, timestamp}
    historicalCache,  \* finnhub.ts: `${symbol}-${timeRange}` -> {data, timestamp}
    inflight,         \* upstream calls issued and not yet answered, in issue order
    returned,         \* the most recent operation and what it returned
    dataTable         \* DataTable: its props tickers and timeRange, its state
                      \* data and historicalData, and the runs of fetchData
                      \* that have not finished

vars == <<now, window, loadDay, localStorage, FINNHUB_API_KEY, API_KEY, currentApiKey,
          requestCount, quoteCache, searchCache, historicalCache, inflight,
          returned, dataTable>>

\* ---------------------------------------------------------------- helpers
\* An object with no own keys ({} as a Record<string, ...>).
EmptyRecord == [k \in {} |-> 0]

\* obj[key] = value on a Record<string, ...>.
Put(obj, key, value) ==
    [k \in (DOMAIN obj) \cup {key} |-> IF k = key THEN value ELSE obj[k]]

\* delete obj[key]
Remove(obj, key) == [k \in (DOMAIN obj) \ {key} |-> obj[k]]

\* ------------------------------------------------------------- config.ts
\* getApiKey(): the stored key if there is a window and the stored value is
\* truthy, else the default.
getApiKey ==
    IF window /\ STORAGE_KEY \in DOMAIN localStorage
              /\ localStorage[STORAGE_KEY] # ""
    THEN localStorage[STORAGE_KEY]
    ELSE DEFAULT_API_KEY

\* getRemainingRequests(): Math.max(0, 60 - requestCount.minute)
getRemainingRequestsMutantNoClamp == LIMIT - requestCount.minute
getRemainingRequests ==
    IF LIMIT - requestCount.minute > 0 THEN LIMIT - requestCount.minute ELSE 0

\* trackRequest() applied to the counter rc at time t: both counters are
\* incremented, then the minute counter restarts at 1 if the window is over.
trackRequestMutantGeq(rc, t) ==
    LET inc == [rc EXCEPT !.total = @ + 1, !.minute = @ + 1]
    IN  IF t - inc.lastReset >= MINUTE_MS
        THEN [inc EXCEPT !.minute = 1, !.lastReset = t]
        ELSE inc
trackRequest(rc, t) ==
    LET inc == [rc EXCEPT !.total = @ + 1, !.minute = @ + 1]
    IN  IF t - inc.lastReset > MINUTE_MS
        THEN [inc EXCEPT !.minute = 1, !.lastReset = t]
        ELSE inc

\* updateApiKey, lines 43-45: the counters as updateApiKey leaves them.
resetCountersMutantKeepMinute(rc, t) == [rc EXCEPT !.lastReset = t]
resetCountersMutantTotal(rc, t) ==
    [rc EXCEPT !.total = 0, !.minute = 0, !.lastReset = t]
resetCounters(rc, t) == [rc EXCEPT !.minute = 0, !.lastReset = t]

\* updateApiKey, line 32: the new value of FINNHUB_API_KEY.
activeKeyAfterUpdateMutantRaw(newKey) == newKey
activeKeyAfterUpdate(newKey) == IF newKey # "" THEN newKey ELSE DEFAULT_API_KEY

\* updateApiKey, lines 35-41: the storage after the call.
storageAfterUpdateMutantNoPersist(newKey) == localStorage
storageAfterUpdate(newKey) ==
    IF window
    THEN IF newKey # ""
         THEN Put(localStorage, STORAGE_KEY, newKey)
         ELSE Remove(localStorage, STORAGE_KEY)
    ELSE localStorage

\* What an operation reports: its name, its argument, the time it was called
\* at, and its result (status "pending" while it awaits the network, "value"
\* with val, or "nodata" for null / [] / {}).
Returned(op, key, at, status, val) ==
    [op |-> op, key |-> key, at |-> at, status |-> status, val |-> val]

\* updateApiKey(newKey)
updateApiKey(newKey) ==
    /\ FINNHUB_API_KEY' = activeKeyAfterUpdate(newKey)
    /\ localStorage' = storageAfterUpdate(newKey)
    /\ requestCount' = resetCounters(requestCount, now)

\* Home.handleSaveApiKey(apiKey): updateApiKey(apiKey); setCurrentApiKey(apiKey)
handleSaveApiKey(apiKey) ==
    /\ updateApiKey(apiKey)
    /\ currentApiKey' = apiKey
    /\ returned' = Returned("handleSaveApiKey", apiKey, now, "value", <<>>)
    /\ UNCHANGED <<now, window, loadDay, API_KEY, quoteCache, searchCache,
                   historicalCache, inflight, dataTable>>

\* Home: isUsingCustomKey
HomeIsUsingCustomKey == currentApiKey # DEFAULT_API_KEY

\* DataTable: isUsingCustomKey
TableIsUsingCustomKey == FINNHUB_API_KEY # DEFAULT_API_KEY

\* ------------------------------------------------- storage helpers
\* saveApiKey(apiKey)
saveApiKey(apiKey) ==
    /\ localStorage' = IF window THEN Put(localStorage, STORAGE_KEY, apiKey)
                                 ELSE localStorage
    /\ returned' = Returned("saveApiKey", apiKey, now, "value", <<>>)
    /\ UNCHANGED <<now, window, loadDay, FINNHUB_API_KEY, API_KEY, currentApiKey,
                   requestCount, quoteCache, searchCache, historicalCache,
                   inflight, dataTable>>

\* clearApiKey()
clearApiKey ==
    /\ localStorage' = IF window THEN Remove(localStorage, STORAGE_KEY)
                                 ELSE localStorage
    /\ returned' = Returned("clearApiKey", "", now, "value", <<>>)
    /\ UNCHANGED <<now, window, loadDay, FINNHUB_API_KEY, API_KEY, currentApiKey,
                   requestCount, quoteCache, searchCache, historicalCache,
                   inflight, dataTable>>

\* ------------------------------------------------------------ finnhub.ts
\* cache[key] && now - cache[key].timestamp < expiry
isFreshMutantLeq(cache, key, t, expiry) ==
    key \in DOMAIN cache /\ t - cache[key].timestamp <= expiry
isFresh(cache, key, t, expiry) ==
    key \in DOMAIN cache /\ t - cache[key].timestamp < expiry

\* {data, timestamp}
CacheEntry(data, timestamp) == [data |-> data, timestamp |-> timestamp]

\* An upstream call awaiting its response: the endpoint, its symbol or query,
\* the token in its URL, the `now` its caller read before the cache check, and
\* the function that awaits it (getQuote itself, or getHistoricalData /
\* calculatePriceChanges awaiting their getQuote) with its time range.
Request(endpoint, key, token, at, caller, timeRange) ==
    [endpoint |-> endpoint, key |-> key, token |-> token, at |-> at,
     caller |-> caller, timeRange |-> timeRange]

\* What the upstream may answer to /quote: fetch may reject; the body may be
\* no JSON (response.json() throws), the JSON null, or an object with or
\* without an error field and with or without the price field c.
QuoteResponses ==
    {[fetch |-> "reject", status |-> 0, body |-> "none", error |-> FALSE,
      c |-> undefined]}
    \cup {[fetch |-> "ok", status |-> 200, body |-> b, error |-> FALSE,
           c |-> undefined] : b \in {"invalid", "null"}}
    \cup {[fetch |-> "ok", status |-> 200, body |-> "object", error |-> FALSE,
           c |-> p] : p \in Prices \cup {undefined}}
    \cup {[fetch |-> "ok", status |-> st, body |-> "object", error |-> TRUE,
           c |-> undefined] : st \in {200, 429}}
    \cup {[fetch |-> "ok", status |-> 500, body |-> "object", error |-> FALSE,
           c |-> p] : p \in Prices}

\* getQuote, lines 74-106: the StockData built from the response, or no data.
\* Of the StockData fields only symbol and price are kept: the others are
\* copies of fields of the body that nothing in this layer reads.
quoteFailsMutantNever(resp) == FALSE
quoteFailsMutantNoErrorField(resp) ==
    \/ resp.fetch = "reject"
    \/ resp.body = "invalid"
    \/ resp.status # 200
    \/ resp.body = "null"
quoteFails(resp) ==
    \/ resp.fetch = "reject"
    \/ resp.body = "invalid"
    \/ resp.status # 200
    \/ resp.body = "null"
    \/ resp.error
StockData(symbol, resp) == [symbol |-> symbol, price |-> resp.c]

\* Symbols of search entries are sequences of characters.
SearchLists ==
    {<<>>,
     <<[symbol |-> <<"B", "T", "C">>, type |-> "crypto"],
       [symbol |-> <<"A">>, type |-> "Common Stock"]>>,
     <<[symbol |-> <<"B", "/", "U">>, type |-> "crypto"],
       [symbol |-> <<"B", "T", "C">>, type |-> "crypto"]>>,
     <<[symbol |-> <<"B", "T", "C">>, type |-> "crypto"],
       [symbol |-> <<"A">>, type |-> "Common Stock"],
       [symbol |-> <<"B", "/", "U">>, type |-> "crypto"]>>}

\* What the upstream may answer to /search.
SearchResponses ==
    {[fetch |-> "reject", status |-> 0, body |-> "none", error |-> FALSE,
      hasResult |-> FALSE, result |-> <<>>]}
    \cup {[fetch |-> "ok", status |-> 200, body |-> b, error |-> FALSE,
           hasResult |-> FALSE, result |-> <<>>] : b \in {"invalid", "null"}}
    \cup {[fetch |-> "ok", status |-> 200, body |-> "object", error |-> FALSE,
           hasResult |-> FALSE, result |-> <<>>]}
    \cup {[fetch |-> "ok", status |-> 200, body |-> "object", error |-> FALSE,
           hasResult |-> TRUE, result |-> l] : l \in SearchLists}
    \cup {[fetch |-> "ok", status |-> st, body |-> "object", error |-> TRUE,
           hasResult |-> FALSE, result |-> <<>>] : st \in {200, 429}}
    \cup {[fetch |-> "ok", status |-> 500, body |-> "object", error |-> FALSE,
           hasResult |-> TRUE, result |-> <<>>]}

\* searchTickers, lines 296-323: data.result of the JSON null throws, which
\* the catch turns into [] like every other failure.
searchFails(resp) ==
    \/ resp.fetch = "reject"
    \/ resp.body = "invalid"
    \/ resp.status # 200
    \/ resp.body = "null"
    \/ ~resp.hasResult
    \/ resp.error

\* String.prototype.includes for a one-character needle
includes(str, ch) == \E i \in DOMAIN str : str[i] = ch

\* searchTickers, lines 305-311 (the description field is left out)
keepSearchItemMutantAll(item) == TRUE
keepSearchItem(item) == item.type # "crypto" \/ includes(item.symbol, "/")
\* Array.prototype.filter is SelectSeq.
searchResults(result) == SelectSeq(result, keepSearchItem)

\* ---------------------------------------------- dates and random numbers
\* A Date is a local calendar day (in days since 1 January 1970) and the
\* milliseconds since its midnight; the page is loaded on day loadDay at
\* PageLoadTimeOfDay.  Daylight-saving shifts are left out.
HOUR_MS == 60 * 60 * 1000
DAY_MS == 24 * HOUR_MS
PageLoadTimeOfDay == 10 * HOUR_MS

\* The day number of the calendar date year-month-date (month 1..12), and the
\* calendar date of a day number, in the Gregorian calendar: the arithmetic
\* behind the fields of a Date.
DaysFromCivil(year, month, date) ==
    LET y == IF month <= 2 THEN year - 1 ELSE year
        era == y \div 400
        yoe == y - era * 400
        mp == IF month > 2 THEN month - 3 ELSE month + 9
        doy == (153 * mp + 2) \div 5 + date - 1
        doe == yoe * 365 + yoe \div 4 - yoe \div 100 + doy
    IN  era * 146097 + doe - 719468
CivilFromDays(days) ==
    LET z == days + 719468
        era == z \div 146097
        doe == z - era * 146097
        yoe == (doe - doe \div 1460 + doe \div 36524 - doe \div 146096) \div 365
        doy == doe - (365 * yoe + yoe \div 4 - yoe \div 100)
        mp == (5 * doy + 2) \div 153
        month == IF mp < 10 THEN mp + 3 ELSE mp - 9
    IN  [year |-> yoe + era * 400 + (IF month <= 2 THEN 1 ELSE 0),
         month |-> month,
         date |-> doy - (153 * mp + 2) \div 5 + 1]

\* The days the page may be loaded on: the 15th and the 31st of March 2025.
LoadDays == {DaysFromCivil(2025, 3, 15), DaysFromCivil(2025, 3, 31)}

\* new Date() at time t
DateAt(t) ==
    [day |-> loadDay + (PageLoadTimeOfDay + t) \div DAY_MS,
     ms |-> (PageLoadTimeOfDay + t) % DAY_MS]

\* a <= b on Dates
DateLeq(a, b) == a.day < b.day \/ (a.day = b.day /\ a.ms <= b.ms)

\* d.getMonth() (0..11), d.getFullYear()
getMonth(d) == CivilFromDays(d.day).month - 1
getFullYear(d) == CivilFromDays(d.day).year

\* d.setDate(d.getDate() + n)
addDays(d, n) == [d EXCEPT !.day = @ + n]

\* d.setMonth(month): the day of the month is kept and, past the end of the
\* target month, runs over into the next one
setMonth(d, month) ==
    LET c == CivilFromDays(d.day)
    IN  [d EXCEPT !.day = DaysFromCivil(c.year + month \div 12,
                                        (month % 12) + 1, 1) + c.date - 1]

\* d.setFullYear(year)
setFullYear(d, year) ==
    LET c == CivilFromDays(d.day)
    IN  [d EXCEPT !.day = DaysFromCivil(year, c.month, 1) + c.date - 1]

\* d.setHours(hour)
setHours(d, hour) == [d EXCEPT !.ms = hour * HOUR_MS + (@ % HOUR_MS)]

\* Math.random() yields k / RandomDen for a k in 0..RandomDen-1; the i-th
\* draw of a run of the generator seeded with seed:
RandomDen == 2
Seeds == {0, 1}
draw(seed, i) == (seed + i) % RandomDen

\* n / d rounded to the nearest integer (Number.prototype.toFixed on cents)
RoundDiv(n, d) ==
    IF n >= 0 THEN (2 * n + d) \div (2 * d) ELSE 0 - ((2 * (0 - n) + d) \div (2 * d))

\* ------------------------------------------- getHistoricalData, synthesis
\* lines 129-153: the start of the window; toDate and fromDate are both
\* new Date() of the instant of the call
fromDate(timeRange, toDate) ==
    CASE timeRange = "1D" -> addDays(toDate, 0 - 1)
      [] timeRange = "1W" -> addDays(toDate, 0 - 7)
      [] timeRange = "1M" -> setMonth(toDate, getMonth(toDate) - 1)
      [] timeRange = "3M" -> setMonth(toDate, getMonth(toDate) - 3)
      [] timeRange = "1Y" -> setFullYear(toDate, getFullYear(toDate) - 1)
      [] timeRange = "All Time" -> setFullYear(toDate, getFullYear(toDate) - 5)
      [] OTHER -> setMonth(toDate, getMonth(toDate) - 1)

\* lines 194-205: days between two points
intervalMutantWeekly(timeRange) == 7
interval(timeRange) ==
    CASE timeRange = "1Y" -> 7
      [] timeRange = "3M" -> 3
      [] timeRange = "All Time" -> 0
      [] OTHER -> 1

\* {date, close}
Point(date, close) == [date |-> date, close |-> close]

\* lines 182-187: basePrice + (Math.random() - 0.5) * basePrice * 0.02, in cents
hourlyPrice(basePrice, k) ==
    IF basePrice = undefined THEN NaN
    ELSE RoundDiv(basePrice * 100 * RandomDen + (2 * k - RandomDen) * basePrice,
                  100 * RandomDen)

\* lines 177-189: the points of "1D", one every second hour of the start day
hourlyPoints(currentDate, basePrice, seed) ==
    [i \in 1 .. 12 |->
        Point(setHours(currentDate, 2 * (i - 1)),
              hourlyPrice(basePrice, draw(seed, i)))]

\* lines 208-217: prevPrice + (Math.random() - 0.45) * basePrice * 0.02, where
\* prevPrice is the last close, or basePrice * 0.95 for the first point
walkPrice(basePrice, dataPoints, k) ==
    IF basePrice = undefined THEN NaN
    ELSE LET prev1000 == IF dataPoints # <<>>
                         THEN dataPoints[Len(dataPoints)].close * 1000
                         ELSE basePrice * 950
         IN  RoundDiv(prev1000 * RandomDen + (20 * k - 9 * RandomDen) * basePrice,
                      1000 * RandomDen)

\* lines 192-225: the while loop.  For "All Time" the date is moved on by a
\* month before the point is pushed (lines 200-205), for the other ranges by
\* interval days after it (lines 221-223).
RECURSIVE walkPoints(_, _, _, _, _, _)
walkPoints(timeRange, currentDate, endDate, basePrice, dataPoints, seed) ==
    IF DateLeq(currentDate, endDate)
    THEN LET pointDate == IF timeRange = "All Time"
                          THEN setMonth(currentDate, getMonth(currentDate) + 1)
                          ELSE currentDate
             pushed == Append(dataPoints,
                              Point(pointDate,
                                    walkPrice(basePrice, dataPoints,
                                              draw(seed, Len(dataPoints) + 1))))
         IN  walkPoints(timeRange, addDays(pointDate, interval(timeRange)),
                        endDate, basePrice, pushed, seed)
    ELSE dataPoints

\* lines 228-231: the last generated point is given the current price
pinLastMutantKeep(dataPoints, basePrice) == dataPoints
pinLast(dataPoints, basePrice) ==
    IF dataPoints # <<>>
    THEN [dataPoints EXCEPT ![Len(dataPoints)].close = basePrice]
    ELSE dataPoints

\* lines 166-237: the series generated for a call made at time callAt whose
\* quote arrived at time t
syntheticSeries(timeRange, basePrice, callAt, t, seed) ==
    LET toDate == DateAt(callAt)
        start == fromDate(timeRange, toDate)
        generated == IF timeRange = "1D"
                     THEN hourlyPoints(start, basePrice, seed)
                     ELSE walkPoints(timeRange, start, toDate, basePrice, <<>>, seed)
    IN  Append(pinLast(generated, basePrice), Point(DateAt(t), basePrice))

\* ------------------------------------------------- calculatePriceChanges
\* lines 259-277: amounts in cents, percentages in hundredths of a percent
priceChanges(currentPrice, k1, k2) ==
    IF currentPrice = undefined
    THEN [weekChange |-> NaN, weekChangePercent |-> RoundDiv((6 * k1 - 2 * RandomDen) * 100, RandomDen),
          monthChange |-> NaN, monthChangePercent |-> RoundDiv((12 * k2 - 4 * RandomDen) * 100, RandomDen)]
    ELSE [weekChange |-> RoundDiv(currentPrice * (6 * k1 - 2 * RandomDen), 100 * RandomDen),
          weekChangePercent |-> RoundDiv((6 * k1 - 2 * RandomDen) * 100, RandomDen),
          monthChange |-> RoundDiv(currentPrice * (12 * k2 - 4 * RandomDen), 100 * RandomDen),
          monthChangePercent |-> RoundDiv((12 * k2 - 4 * RandomDen) * 100, RandomDen)]

\* ---------------------------------------------------------------- actions
\* The state when the modules have been loaded and Home has mounted.
InitialStorage ==
    {EmptyRecord} \cup {Put(EmptyRecord, STORAGE_KEY, k) : k \in CustomKeys}

Init ==
    /\ now = 0
    /\ window \in BOOLEAN
    /\ loadDay \in LoadDays
    /\ localStorage \in (IF window THEN InitialStorage ELSE {EmptyRecord})
    /\ FINNHUB_API_KEY = getApiKey
    /\ API_KEY = FINNHUB_API_KEY
    /\ currentApiKey = (IF window THEN getApiKey ELSE "")
    /\ requestCount = [total |-> 0, minute |-> 0, lastReset |-> now]
    /\ quoteCache = EmptyRecord
    /\ searchCache = EmptyRecord
    /\ historicalCache = EmptyRecord
    /\ inflight = <<>>
    /\ returned = Returned("load", "", 0, "value", <<>>)
    /\ dataTable = [tickers |-> <<>>, timeRange |-> "1W", data |-> <<>>,
                    historicalData |-> EmptyRecord, runs |-> <<>>]

\* Time passes until instant t.
Tick(t) ==
    /\ t > now
    /\ now' = t
    /\ UNCHANGED <<window, loadDay, localStorage, FINNHUB_API_KEY, API_KEY,
                   currentApiKey, requestCount, quoteCache, searchCache,
                   historicalCache, inflight, returned, dataTable>>

\* inflight without its i-th element
Without(seq, i) == SubSeq(seq, 1, i - 1) \o SubSeq(seq, i + 1, Len(seq))

\* getQuote(symbol), lines 63-74: up to the await of fetch
getQuote(symbol) ==
    \/ /\ isFresh(quoteCache, symbol, now, CACHE_EXPIRY_QUOTE)
       /\ returned' = Returned("getQuote", symbol, now, "value",
                               quoteCache[symbol].data)
       /\ UNCHANGED <<now, window, loadDay, localStorage, FINNHUB_API_KEY, API_KEY,
                      currentApiKey, requestCount, quoteCache, searchCache,
                      historicalCache, inflight, dataTable>>
    \/ /\ ~isFresh(quoteCache, symbol, now, CACHE_EXPIRY_QUOTE)
       /\ requestCount' = trackRequest(requestCount, now)
       /\ inflight' = Append(inflight,
                             Request("quote", symbol, API_KEY, now, "getQuote", ""))
       /\ returned' = Returned("getQuote", symbol, now, "pending", <<>>)
       /\ UNCHANGED <<now, window, loadDay, localStorage, FINNHUB_API_KEY, API_KEY,
                      currentApiKey, quoteCache, searchCache, historicalCache, dataTable>>

\* The history cache key `${symbol}-${timeRange}`, line 113
historicalCacheKeyMutantSymbol(symbol, timeRange) == symbol
historicalCacheKey(symbol, timeRange) == symbol \o "-" \o timeRange

\* getHistoricalData(symbol, timeRange), lines 111-161 and, when getQuote is
\* served from its cache, on to line 245; seed seeds Math.random
getHistoricalData(symbol, timeRange, seed) ==
    LET cacheKey == historicalCacheKey(symbol, timeRange) IN
    \/ /\ isFresh(historicalCache, cacheKey, now, CACHE_EXPIRY_HISTORICAL)
       /\ returned' = Returned("getHistoricalData", cacheKey, now, "value",
                               historicalCache[cacheKey].data)
       /\ UNCHANGED <<now, window, loadDay, localStorage, FINNHUB_API_KEY, API_KEY,
                      currentApiKey, requestCount, quoteCache, searchCache,
                      historicalCache, inflight, dataTable>>
    \/ /\ ~isFresh(historicalCache, cacheKey, now, CACHE_EXPIRY_HISTORICAL)
       /\ isFresh(quoteCache, symbol, now, CACHE_EXPIRY_QUOTE)
       /\ requestCount' = trackRequest(requestCount, now)
       /\ LET dataPoints == syntheticSeries(timeRange,
                                quoteCache[symbol].data.price, now, now, seed)
          IN  /\ historicalCache' =
                     Put(historicalCache, cacheKey, CacheEntry(dataPoints, now))
              /\ returned' = Returned("getHistoricalData", cacheKey, now,
                                      "value", dataPoints)
       /\ UNCHANGED <<now, window, loadDay, localStorage, FINNHUB_API_KEY, API_KEY,
                      currentApiKey, quoteCache, searchCache, inflight, dataTable>>
    \/ /\ ~isFresh(historicalCache, cacheKey, now, CACHE_EXPIRY_HISTORICAL)
       /\ ~isFresh(quoteCache, symbol, now, CACHE_EXPIRY_QUOTE)
       /\ requestCount' = trackRequest(trackRequest(requestCount, now), now)
       /\ inflight' = Append(inflight,
                             Request("quote", symbol, API_KEY, now,
                                     "getHistoricalData", timeRange))
       /\ returned' = Returned("getHistoricalData", cacheKey, now, "pending", <<>>)
       /\ UNCHANGED <<now, window, loadDay, localStorage, FINNHUB_API_KEY, API_KEY,
                      currentApiKey, quoteCache, searchCache, historicalCache, dataTable>>

\* calculatePriceChanges(symbol), lines 253-256 and, when getQuote is served
\* from its cache, on to line 277; k1 and k2 are the two draws of Math.random
calculatePriceChanges(symbol, k1, k2) ==
    \/ /\ isFresh(quoteCache, symbol, now, CACHE_EXPIRY_QUOTE)
       /\ returned' = Returned("calculatePriceChanges", symbol, now, "value",
                               priceChanges(quoteCache[symbol].data.price, k1, k2))
       /\ UNCHANGED <<now, window, loadDay, localStorage, FINNHUB_API_KEY, API_KEY,
                      currentApiKey, requestCount, quoteCache, searchCache,
                      historicalCache, inflight, dataTable>>
    \/ /\ ~isFresh(quoteCache, symbol, now, CACHE_EXPIRY_QUOTE)
       /\ requestCount' = trackRequest(requestCount, now)
       /\ inflight' = Append(inflight,
                             Request("quote", symbol, API_KEY, now,
                                     "calculatePriceChanges", ""))
       /\ returned' = Returned("calculatePriceChanges", symbol, now, "pending", <<>>)
       /\ UNCHANGED <<now, window, loadDay, localStorage, FINNHUB_API_KEY, API_KEY,
                      currentApiKey, quoteCache, searchCache, historicalCache, dataTable>>

\* searchTickers(query), lines 285-296: up to the await of fetch
searchTickers(query) ==
    \/ /\ isFresh(searchCache, query, now, CACHE_EXPIRY_SEARCH)
       /\ returned' = Returned("searchTickers", query, now, "value",
                               searchCache[query].data)
       /\ UNCHANGED <<now, window, loadDay, localStorage, FINNHUB_API_KEY, API_KEY,
                      currentApiKey, requestCount, quoteCache, searchCache,
                      historicalCache, inflight, dataTable>>
    \/ /\ ~isFresh(searchCache, query, now, CACHE_EXPIRY_SEARCH)
       /\ requestCount' = trackRequest(requestCount, now)
       /\ inflight' = Append(inflight,
                             Request("search", query, API_KEY, now,
                                     "searchTickers", ""))
       /\ returned' = Returned("searchTickers", query, now, "pending", <<>>)
       /\ UNCHANGED <<now, window, loadDay, localStorage, FINNHUB_API_KEY, API_KEY,
                      currentApiKey, quoteCache, searchCache, historicalCache, dataTable>>

\* getQuote, lines 96-100: the quote cache once the response resp to the
\* request r has been handled
quoteCacheAfterMutantNoStore(r, resp) == quoteCache
quoteCacheAfterMutantKeepNewer(r, resp) ==
    IF quoteFails(resp) \/ (r.key \in DOMAIN quoteCache
                            /\ quoteCache[r.key].timestamp > r.at)
    THEN quoteCache
    ELSE Put(quoteCache, r.key, CacheEntry(StockData(r.key, resp), r.at))
quoteCacheAfter(r, resp) ==
    IF quoteFails(resp) THEN quoteCache
    ELSE Put(quoteCache, r.key, CacheEntry(StockData(r.key, resp), r.at))

\* The response to the i-th outstanding call arrives, a /quote call made by
\* getQuote on behalf of its own caller: getQuote, lines 75-106.
RespondGetQuote(i, resp) ==
    LET r == inflight[i] IN
    /\ r.endpoint = "quote"
    /\ r.caller = "getQuote"
    /\ inflight' = Without(inflight, i)
    /\ quoteCache' = quoteCacheAfter(r, resp)
    /\ returned' = IF quoteFails(resp)
                   THEN Returned("getQuote", r.key, r.at, "nodata", <<>>)
                   ELSE Returned("getQuote", r.key, r.at, "value",
                                 StockData(r.key, resp))
    /\ UNCHANGED <<now, window, loadDay, localStorage, FINNHUB_API_KEY, API_KEY,
                   currentApiKey, requestCount, searchCache, historicalCache, dataTable>>

\* The same for a getQuote awaited by calculatePriceChanges, which then runs
\* its lines 257-281.
RespondChanges(i, resp, k1, k2) ==
    LET r == inflight[i] IN
    /\ r.endpoint = "quote"
    /\ r.caller = "calculatePriceChanges"
    /\ inflight' = Without(inflight, i)
    /\ quoteCache' = quoteCacheAfter(r, resp)
    /\ returned' = IF quoteFails(resp)
                   THEN Returned("calculatePriceChanges", r.key, r.at, "nodata", <<>>)
                   ELSE Returned("calculatePriceChanges", r.key, r.at, "value",
                                 priceChanges(resp.c, k1, k2))
    /\ UNCHANGED <<now, window, loadDay, localStorage, FINNHUB_API_KEY, API_KEY,
                   currentApiKey, requestCount, searchCache, historicalCache, dataTable>>

\* The same for a getQuote awaited by getHistoricalData, which then runs its
\* lines 162-249.
RespondHistorical(i, resp, seed) ==
    LET r == inflight[i]
        cacheKey == historicalCacheKey(r.key, r.timeRange)
        dataPoints == syntheticSeries(r.timeRange, resp.c, r.at, now, seed)
    IN
    /\ r.endpoint = "quote"
    /\ r.caller = "getHistoricalData"
    /\ inflight' = Without(inflight, i)
    /\ quoteCache' = quoteCacheAfter(r, resp)
    /\ IF quoteFails(resp)
       THEN /\ returned' = Returned("getHistoricalData", cacheKey, r.at,
                                    "nodata", <<>>)
            /\ UNCHANGED historicalCache
       ELSE /\ historicalCache' =
                  Put(historicalCache, cacheKey, CacheEntry(dataPoints, r.at))
            /\ returned' = Returned("getHistoricalData", cacheKey, r.at,
                                    "value", dataPoints)
    /\ UNCHANGED <<now, window, loadDay, localStorage, FINNHUB_API_KEY, API_KEY,
                   currentApiKey, requestCount, searchCache, dataTable>>

\* The response to the i-th outstanding call arrives, a /search call:
\* searchTickers, lines 297-323.
RespondSearch(i, resp) ==
    LET r == inflight[i]
        results == searchResults(resp.result)
    IN
    /\ r.endpoint = "search"
    /\ inflight' = Without(inflight, i)
    /\ searchCache' = IF searchFails(resp) THEN searchCache
                      ELSE Put(searchCache, r.key, CacheEntry(results, r.at))
    /\ returned' = IF searchFails(resp)
                   THEN Returned("searchTickers", r.key, r.at, "nodata", <<>>)
                   ELSE Returned("searchTickers", r.key, r.at, "value", results)
    /\ UNCHANGED <<now, window, loadDay, localStorage, FINNHUB_API_KEY, API_KEY,
                   currentApiKey, requestCount, quoteCache, historicalCache, dataTable>>

\* clearCaches()
clearCachesMutantKeepHistory ==
    /\ quoteCache' = EmptyRecord
    /\ searchCache' = EmptyRecord
    /\ returned' = Returned("clearCaches", "", now, "value", <<>>)
    /\ UNCHANGED <<now, window, loadDay, localStorage, FINNHUB_API_KEY, API_KEY,
                   currentApiKey, requestCount, historicalCache, inflight, dataTable>>
clearCaches ==
    /\ quoteCache' = EmptyRecord
    /\ searchCache' = EmptyRecord
    /\ historicalCache' = EmptyRecord
    /\ returned' = Returned("clearCaches", "", now, "value", <<>>)
    /\ UNCHANGED <<now, window, loadDay, localStorage, FINNHUB_API_KEY, API_KEY,
                   currentApiKey, requestCount, inflight, dataTable>>

\* trackRequest() called on its own
record ==
    /\ requestCount' = trackRequest(requestCount, now)
    /\ returned' = Returned("trackRequest", "", now, "value", <<>>)
    /\ UNCHANGED <<now, window, loadDay, localStorage, FINNHUB_API_KEY, API_KEY,
                   currentApiKey, quoteCache, searchCache, historicalCache,
                   inflight, dataTable>>

\* A caller reads getRemainingRequests().
readRemainingRequests ==
    /\ returned' = Returned("getRemainingRequests", "", now, "value",
                            getRemainingRequests)
    /\ UNCHANGED <<now, window, loadDay, localStorage, FINNHUB_API_KEY, API_KEY,
                   currentApiKey, requestCount, quoteCache, searchCache,
                   historicalCache, inflight, dataTable>>

\* ------------------------------------------------------------ TickerSearch
\* part_000, lines 53-55: the search is not attempted with fewer than five
\* requests left
searchGatedMutantFour == getRemainingRequests < 4
searchGated == getRemainingRequests < 5

\* part_000, lines 40-79: the debounce timer fires for the text in the field.
\* A text shorter than two characters clears the results; with too few
\* requests left the warning is shown; otherwise searchTickers is called.
debounceTimer(query) ==
    \/ /\ Len(query) < 2
       /\ returned' = Returned("TickerSearch", query, now, "cleared", <<>>)
       /\ UNCHANGED <<now, window, loadDay, localStorage, FINNHUB_API_KEY, API_KEY,
                      currentApiKey, requestCount, quoteCache, searchCache,
                      historicalCache, inflight, dataTable>>
    \/ /\ Len(query) >= 2
       /\ searchGated
       /\ returned' = Returned("TickerSearch", query, now, "error", <<>>)
       /\ UNCHANGED <<now, window, loadDay, localStorage, FINNHUB_API_KEY, API_KEY,
                      currentApiKey, requestCount, quoteCache, searchCache,
                      historicalCache, inflight, dataTable>>
    \/ /\ Len(query) >= 2
       /\ ~searchGated
       /\ searchTickers(query)

\* ---------------------------------------------------------------- DataTable
\* part_001, line 68, and the pause between two batches, lines 90 and 117
batchSize == 5
batchPause == 100

\* The elements of a sequence.
Range(seq) == {seq[k] : k \in DOMAIN seq}

\* The element of a set of one element: Only({e(x) : x \in {d}}) is e(d),
\* with d evaluated once.
Only(S) == CHOOSE x \in S : TRUE

\* tickers.slice(i, i + batchSize)
slice(seq, i) ==
    SubSeq(seq, i + 1, IF i + batchSize < Len(seq) THEN i + batchSize ELSE Len(seq))

\* The elements of seq that are in S, in their order.
RECURSIVE among(_, _)
among(seq, S) ==
    IF seq = <<>> THEN <<>>
    ELSE (IF Head(seq) \in S THEN <<Head(seq)>> ELSE <<>>) \o among(Tail(seq), S)

\* The state of the library that a run of fetchData passes through its calls.
Lib(rc, qc, hc, inf) == [rc |-> rc, qc |-> qc, hc |-> hc, inf |-> inf]

\* getQuote(symbol) called at time t for caller, finnhub.ts lines 63-74: a
\* miss counts a request and leaves a call in flight
quoteCall(L, symbol, caller, timeRange, t) ==
    IF isFresh(L.qc, symbol, t, CACHE_EXPIRY_QUOTE) THEN L
    ELSE [L EXCEPT !.rc = trackRequest(@, t),
                   !.inf = Append(@, Request("quote", symbol, API_KEY, t,
                                             caller, timeRange))]

\* batch.map(ticker => getQuote(ticker)), and validTickers.map(ticker =>
\* calculatePriceChanges(ticker)), which awaits getQuote(ticker) at once
RECURSIVE quoteCalls(_, _, _, _)
quoteCalls(L, batch, caller, t) ==
    IF batch = <<>> THEN L
    ELSE Only({quoteCalls(L1, Tail(batch), caller, t) :
                  L1 \in {quoteCall(L, Head(batch), caller, "", t)}})

\* getHistoricalData(symbol, timeRange) called at time t, finnhub.ts lines
\* 111-161 and, with the quote in the cache, on to line 245
historyCall(L, symbol, timeRange, t, seed) ==
    LET cacheKey == historicalCacheKey(symbol, timeRange)
        counted == [L EXCEPT !.rc = trackRequest(@, t)]
    IN  IF isFresh(L.hc, cacheKey, t, CACHE_EXPIRY_HISTORICAL) THEN L
        ELSE IF isFresh(L.qc, symbol, t, CACHE_EXPIRY_QUOTE)
        THEN [counted EXCEPT !.hc =
                 Put(@, cacheKey,
                     CacheEntry(syntheticSeries(timeRange,
                                    L.qc[symbol].data.price, t, t, seed), t))]
        ELSE quoteCall(counted, symbol, "getHistoricalData", timeRange, t)

\* batch.map(ticker => getHistoricalData(ticker, timeRange))
RECURSIVE historyCalls(_, _, _, _, _)
historyCalls(L, batch, timeRange, t, seed) ==
    IF batch = <<>> THEN L
    ELSE Only({historyCalls(L1, Tail(batch), timeRange, t, seed) :
                  L1 \in {historyCall(L, Head(batch), timeRange, t, seed)}})

\* A run of fetchData for the props it was started with: the step it is at
\* (phase, and the offset i of its batch), the time at its batch was issued
\* or its pause began, the tickers whose promise is pending, the results got
\* for the batch, and its locals validTickers, validQuotes, newHistoricalData.
Run(tickers, timeRange) ==
    [tickers |-> tickers, timeRange |-> timeRange, phase |-> "quotes", i |-> 0,
     at |-> 0, pending |-> {}, got |-> EmptyRecord, validTickers |-> <<>>,
     validQuotes |-> <<>>, newHistoricalData |-> EmptyRecord]

\* What a step of a run leaves: the run, whether it has reached setData and
\* setHistoricalData (lines 124-125), and the library.
Outcome(run, done, L) == [run |-> run, done |-> done, L |-> L]

\* fetchData, lines 73-77: the quotes of the batch at offset run.i are asked
\* for at time t; the quotes served from the cache are got at once.
issueQuotes(run, L, t) ==
    LET batch == slice(run.tickers, run.i)
        hits == {s \in Range(batch) : isFresh(L.qc, s, t, CACHE_EXPIRY_QUOTE)}
    IN  Outcome([run EXCEPT !.phase = "quotes", !.at = t,
                            !.pending = Range(batch) \ hits,
                            !.got = [s \in hits |-> L.qc[s].data]],
                FALSE, quoteCalls(L, batch, "getQuote", t))

\* fetchData, lines 95-96: the price changes of every valid ticker are asked
\* for at once.
issueChanges(run, L, t) ==
    LET hits == {s \in Range(run.validTickers) :
                    isFresh(L.qc, s, t, CACHE_EXPIRY_QUOTE)}
    IN  Outcome([run EXCEPT !.phase = "changes", !.at = t,
                            !.pending = Range(run.validTickers) \ hits,
                            !.got = EmptyRecord],
                FALSE, quoteCalls(L, run.validTickers, "calculatePriceChanges", t))

\* fetchData, lines 105-110: the histories of the batch at offset run.i are
\* asked for; past the last batch the loop is over and lines 124-125 follow.
issueHistory(run, L, t, seed) ==
    LET batch == slice(run.validTickers, run.i)
        issued(L1) ==
            LET ready == {s \in Range(batch) :
                             isFresh(L1.hc, historicalCacheKey(s, run.timeRange),
                                     t, CACHE_EXPIRY_HISTORICAL)}
            IN  Outcome([run EXCEPT
                            !.phase = "history", !.at = t,
                            !.pending = Range(batch) \ ready,
                            !.got = [s \in ready |->
                                        L1.hc[historicalCacheKey(
                                                  s, run.timeRange)].data]],
                        FALSE, L1)
    IN  IF run.i >= Len(run.validTickers) THEN Outcome(run, TRUE, L)
        ELSE Only({issued(L1) :
                      L1 \in {historyCalls(L, batch, run.timeRange, t, seed)}})

\* fetchData after the await of a batch, at time t: lines 80-92 and 94-96
\* after quotes, lines 99-105 after price changes, lines 112-125 after
\* histories.
afterBatch(run, L, t, seed) ==
    CASE run.phase = "quotes" ->
           LET valid == among(slice(run.tickers, run.i), DOMAIN run.got)
               kept == [run EXCEPT
                           !.validTickers = @ \o valid,
                           !.validQuotes =
                               @ \o [k \in 1 .. Len(valid) |-> run.got[valid[k]]]]
           IN  IF run.i + batchSize < Len(run.tickers)
               THEN Outcome([kept EXCEPT !.phase = "quotesPause", !.at = t],
                            FALSE, L)
               ELSE issueChanges(kept, L, t)
      [] run.phase = "changes" -> issueHistory([run EXCEPT !.i = 0], L, t, seed)
      [] run.phase = "history" ->
           LET kept == [run EXCEPT
                           !.newHistoricalData =
                               [s \in (DOMAIN @) \cup (DOMAIN run.got) |->
                                   IF s \in DOMAIN run.got THEN run.got[s]
                                   ELSE @[s]]]
           IN  IF run.i + batchSize < Len(run.validTickers)
               THEN Outcome([kept EXCEPT !.phase = "historyPause", !.at = t],
                            FALSE, L)
               ELSE Outcome(kept, TRUE, L)

\* The variables after a step of the n-th run that left outcome; a run that
\* is done has called setData and setHistoricalData and is no longer kept.
\* data holds the quote of each row, without its price changes.
settle(n, outcome) ==
    /\ requestCount' = outcome.L.rc
    /\ quoteCache' = outcome.L.qc
    /\ historicalCache' = outcome.L.hc
    /\ inflight' = outcome.L.inf
    /\ returned' = Returned("fetchData", "", now,
                            IF outcome.done THEN "value" ELSE "pending", <<>>)
    /\ dataTable' =
           IF outcome.done
           THEN [dataTable EXCEPT !.runs = Without(@, n),
                                  !.data = outcome.run.validQuotes,
                                  !.historicalData = outcome.run.newHistoricalData]
           ELSE [dataTable EXCEPT !.runs[n] = outcome.run]
    /\ UNCHANGED <<now, window, loadDay, localStorage, FINNHUB_API_KEY, API_KEY,
                   currentApiKey, searchCache>>

\* A run whose awaited promises are all settled goes on before anything else
\* happens: its continuation is a microtask.
Runnable(run) ==
    run.phase \in {"quotes", "changes", "history"} /\ run.pending = {}
Quiet == \A n \in DOMAIN dataTable.runs : ~Runnable(dataTable.runs[n])

\* DataTable is rendered with new props: the effect of lines 55-146 runs and
\* starts fetchData, whatever earlier runs are still under way.
started(tickers, timeRange) ==
    LET L == Lib(requestCount, quoteCache, historicalCache, inflight)
    IN  IF tickers = <<>> THEN Outcome(Run(tickers, timeRange), TRUE, L)
        ELSE issueQuotes(Run(tickers, timeRange), L, now)
render(tickers, timeRange) ==
    \E outcome \in {started(tickers, timeRange)} :
    LET props == [dataTable EXCEPT !.tickers = tickers, !.timeRange = timeRange]
    IN  /\ Quiet
        /\ <<tickers, timeRange>> # <<dataTable.tickers, dataTable.timeRange>>
        /\ requestCount' = outcome.L.rc
        /\ inflight' = outcome.L.inf
        /\ returned' = Returned("fetchData", "", now,
                                IF outcome.done THEN "value" ELSE "pending", <<>>)
        /\ dataTable' =
               IF outcome.done
               THEN [props EXCEPT !.data = outcome.run.validQuotes,
                                  !.historicalData = outcome.run.newHistoricalData]
               ELSE [props EXCEPT !.runs = Append(@, outcome.run)]
        /\ UNCHANGED <<now, window, loadDay, localStorage, FINNHUB_API_KEY, API_KEY,
                       currentApiKey, quoteCache, searchCache, historicalCache>>

\* The caller of the quote request a run is waiting for in its phase.
awaited(phase) ==
    CASE phase = "quotes" -> "getQuote"
      [] phase = "changes" -> "calculatePriceChanges"
      [] phase = "history" -> "getHistoricalData"
      [] OTHER -> "none"

\* The response to the i-th outstanding call arrives, a call awaited by the
\* n-th run: the library handles it (finnhub.ts lines 75-106, and 162-249
\* for getHistoricalData) and the promise of the run is settled.
respond(n, i, resp, seed) ==
    LET r == inflight[i]
        run == dataTable.runs[n]
        cacheKey == historicalCacheKey(r.key, r.timeRange)
        dataPoints == syntheticSeries(r.timeRange, resp.c, r.at, now, seed)
        stored == run.phase = "history" /\ ~quoteFails(resp)
        L == Lib(requestCount, quoteCacheAfter(r, resp),
                 IF stored
                 THEN Put(historicalCache, cacheKey, CacheEntry(dataPoints, r.at))
                 ELSE historicalCache,
                 Without(inflight, i))
        result == CASE run.phase = "quotes" -> StockData(r.key, resp)
                    [] run.phase = "history" ->
                         IF quoteFails(resp) THEN <<>> ELSE dataPoints
                    [] OTHER -> <<>>
        recorded == run.phase = "history"
                    \/ (run.phase = "quotes" /\ ~quoteFails(resp))
        settled == [run EXCEPT !.pending = @ \ {r.key},
                               !.got = IF recorded THEN Put(@, r.key, result)
                                       ELSE @]
    IN  /\ Quiet
        /\ r.endpoint = "quote"
        /\ r.caller = awaited(run.phase)
        /\ r.key \in run.pending
        /\ r.at = run.at
        /\ run.phase = "history" => r.timeRange = run.timeRange
        /\ \E outcome \in {Outcome(settled, FALSE, L)} : settle(n, outcome)

\* The n-th run goes on after the await of its batch.
advance(n, seed) ==
    /\ Runnable(dataTable.runs[n])
    /\ \E L \in {Lib(requestCount, quoteCache, historicalCache, inflight)} :
       \E outcome \in {afterBatch(dataTable.runs[n], L, now, seed)} :
           settle(n, outcome)

\* The pause of the n-th run between two batches is over (lines 89-91 and
\* 116-118): the next batch is issued.
resume(n, seed) ==
    LET run == dataTable.runs[n]
        L == Lib(requestCount, quoteCache, historicalCache, inflight)
        next == [run EXCEPT !.i = @ + batchSize]
    IN  /\ Quiet
        /\ run.phase \in {"quotesPause", "historyPause"}
        /\ now >= run.at + batchPause
        /\ \E outcome \in {IF run.phase = "quotesPause"
                           THEN issueQuotes(next, L, now)
                           ELSE issueHistory(next, L, now, seed)} :
               settle(n, outcome)

\* --------------------------------------------------------- specifications
\* A browser with no stored key, on any of the days and on the first of them.
InitHistory == Init /\ window = TRUE /\ localStorage = EmptyRecord
InitBrowser == InitHistory /\ loadDay = DaysFromCivil(2025, 3, 15)

\* Small input alphabets: one failing and one successful answer per endpoint.
QuoteResponsesBrief ==
    {resp \in QuoteResponses :
        \/ resp.fetch = "reject"
        \/ resp.status = 200 /\ resp.body = "object" /\ ~resp.error /\ resp.c = 200}
\* Every failing answer and a successful one for each price.
QuoteResponsesHistory ==
    {resp \in QuoteResponses : quoteFails(resp) \/ resp.c \in Prices}
SearchResponsesBrief ==
    {resp \in SearchResponses :
        \/ resp.fetch = "reject"
        \/ resp.status = 200 /\ resp.hasResult /\ Len(resp.result) = 2
           /\ resp.result[2].type # "crypto"}
\* Instants (ms since the page was loaded) to which the clock may advance.
InstantsBrief == {60000, 60001}

\* A step that leaves at most max requests counted.
Upto(max) == requestCount'.total <= max

\* The application: every operation the pages perform on the layer.
Next ==
    \/ \E t \in InstantsBrief : Tick(t)
    \/ \E symbol \in Symbols : getQuote(symbol) /\ Upto(MaxRequestsAll)
    \/ \E symbol \in Symbols, timeRange \in {"1W"}, seed \in {0} :
           getHistoricalData(symbol, timeRange, seed) /\ Upto(MaxRequestsAll)
    \/ \E symbol \in Symbols, k1 \in {0}, k2 \in {1} :
           calculatePriceChanges(symbol, k1, k2) /\ Upto(MaxRequestsAll)
    \/ \E query \in Queries : searchTickers(query) /\ Upto(MaxRequestsAll)
    \/ \E i \in DOMAIN inflight, resp \in QuoteResponsesBrief :
           RespondGetQuote(i, resp)
    \/ \E i \in DOMAIN inflight, resp \in QuoteResponsesBrief, seed \in {0} :
           RespondHistorical(i, resp, seed)
    \/ \E i \in DOMAIN inflight, resp \in QuoteResponsesBrief, k1 \in {0}, k2 \in {1} :
           RespondChanges(i, resp, k1, k2)
    \/ \E i \in DOMAIN inflight, resp \in SearchResponsesBrief :
           RespondSearch(i, resp)
    \/ clearCaches
    \/ record /\ Upto(MaxRequestsAll)
    \/ readRemainingRequests
    \/ \E apiKey \in CustomKeys \cup {""} : handleSaveApiKey(apiKey)

Spec == Init /\ [][Next]_vars

\* Request accounting and the API-key dialog.
NextCounter ==
    \/ \E t \in {1, 60000, 60001} : Tick(t)
    \/ record /\ Upto(MaxRecords)
    \/ readRemainingRequests
    \/ \E apiKey \in CustomKeys \cup {""} : handleSaveApiKey(apiKey)

SpecCounter == InitBrowser /\ [][NextCounter]_vars

\* Quotes on their own, with every answer the upstream may give.
NextQuote ==
    \/ \E t \in {1, 60000, 60001} : Tick(t)
    \/ \E symbol \in Symbols : getQuote(symbol) /\ Upto(MaxRequests)
    \/ \E i \in DOMAIN inflight, resp \in QuoteResponses : RespondGetQuote(i, resp)
    \/ clearCaches

SpecQuote == InitBrowser /\ [][NextQuote]_vars

\* Quotes and searches, with every answer the upstream may give.
NextFetch ==
    \/ \E t \in {60000} : Tick(t)
    \/ \E symbol \in Symbols : getQuote(symbol) /\ Upto(MaxRequests)
    \/ \E query \in Queries : searchTickers(query) /\ Upto(MaxRequests)
    \/ \E i \in DOMAIN inflight, resp \in QuoteResponses : RespondGetQuote(i, resp)
    \/ \E i \in DOMAIN inflight, resp \in SearchResponses : RespondSearch(i, resp)

SpecFetch == InitBrowser /\ [][NextFetch]_vars

\* The three caches across their expiry times.
NextCaches ==
    \/ \E t \in {1, 60000, 300000, 3600000} : Tick(t)
    \/ \E symbol \in Symbols : getQuote(symbol) /\ Upto(MaxRequests)
    \/ \E query \in Queries : searchTickers(query) /\ Upto(MaxRequests)
    \/ \E symbol \in Symbols, timeRange \in {"1W"}, seed \in {0} :
           getHistoricalData(symbol, timeRange, seed) /\ Upto(MaxRequests)
    \/ \E i \in DOMAIN inflight, resp \in QuoteResponsesBrief :
           RespondGetQuote(i, resp)
    \/ \E i \in DOMAIN inflight, resp \in QuoteResponsesBrief, seed \in {0} :
           RespondHistorical(i, resp, seed)
    \/ \E i \in DOMAIN inflight, resp \in SearchResponsesBrief :
           RespondSearch(i, resp)

SpecCaches == InitBrowser /\ [][NextCaches]_vars

\* The key store with the storage helpers of the library.
NextStorage ==
    \/ \E t \in {60000, 60001} : Tick(t)
    \/ record /\ Upto(MaxRequestsAll)
    \/ \E apiKey \in CustomKeys \cup {""} : handleSaveApiKey(apiKey)
    \/ \E apiKey \in CustomKeys \cup {""} : saveApiKey(apiKey)
    \/ clearApiKey

SpecStorage == Init /\ [][NextStorage]_vars

\* The synthetic series: every label, both draws of the generator, on each
\* of the days.
NextSeries ==
    \/ \E t \in {60000} : Tick(t)
    \/ \E symbol \in Symbols : getQuote(symbol) /\ Upto(MaxRequestsAll)
    \/ \E symbol \in Symbols, timeRange \in TimeRanges, seed \in Seeds :
           getHistoricalData(symbol, timeRange, seed) /\ Upto(MaxRequestsAll)
    \/ \E i \in DOMAIN inflight, resp \in QuoteResponsesHistory :
           RespondGetQuote(i, resp)
    \/ \E i \in DOMAIN inflight, resp \in QuoteResponsesHistory, seed \in Seeds :
           RespondHistorical(i, resp, seed)

SpecSeries == InitHistory /\ [][NextSeries]_vars

\* The history cache next to the quote cache: two labels, anchor prices that
\* differ from one quote to the next.
NextHistory ==
    \/ \E t \in {60000, 3600000} : Tick(t)
    \/ \E symbol \in Symbols : getQuote(symbol) /\ Upto(MaxRequests)
    \/ \E symbol \in Symbols, timeRange \in {"1D", "1W"}, seed \in Seeds :
           getHistoricalData(symbol, timeRange, seed) /\ Upto(MaxRequests)
    \/ \E i \in DOMAIN inflight, resp \in QuoteResponsesHistory :
           RespondGetQuote(i, resp)
    \/ \E i \in DOMAIN inflight, resp \in QuoteResponsesHistory, seed \in Seeds :
           RespondHistorical(i, resp, seed)
    \/ clearCaches

SpecHistory == InitBrowser /\ [][NextHistory]_vars

\* The search field, with quote and history fetches beside it; the user
\* starts an operation when no call is in flight.
Idle == inflight = <<>>
NextSearch ==
    \/ \E t \in {60001} : Tick(t)
    \/ record /\ Upto(MaxRecords)
    \/ \E query \in Queries \cup {"a"} :
           debounceTimer(query) /\ Idle /\ Upto(MaxRecords)
    \/ \E symbol \in Symbols : getQuote(symbol) /\ Idle /\ Upto(MaxRecords)
    \/ \E symbol \in Symbols, timeRange \in {"1W"}, seed \in {0} :
           getHistoricalData(symbol, timeRange, seed) /\ Idle /\ Upto(MaxRecords)
    \/ \E i \in DOMAIN inflight, resp \in QuoteResponsesBrief :
           RespondGetQuote(i, resp)
    \/ \E i \in DOMAIN inflight, resp \in QuoteResponsesBrief, seed \in {0} :
           RespondHistorical(i, resp, seed)
    \/ \E i \in DOMAIN inflight, resp \in SearchResponsesBrief :
           RespondSearch(i, resp)

SpecSearch == InitBrowser /\ [][NextSearch]_vars

\* Request accounting with no key change, the first request counted 2 ms
\* after the page was loaded at the earliest.
NextWindow ==
    \/ \E t \in {2, 60001} : Tick(t)
    \/ record /\ now > 0 /\ Upto(MaxRecords)
    \/ readRemainingRequests

SpecWindow == InitBrowser /\ [][NextWindow]_vars

\* One refresh of a table of six tickers.
Tickers6 == <<"AAPL", "MSFT", "GOOG", "AMZN", "META", "TSLA">>
NextTable ==
    \/ \E t \in {100, 60100} : Tick(t) /\ Quiet
    \/ render(Tickers6, "1W") /\ dataTable.tickers = <<>>
    \/ \E n \in DOMAIN dataTable.runs, i \in DOMAIN inflight,
          resp \in QuoteResponsesBrief, seed \in {0} : respond(n, i, resp, seed)
    \/ \E n \in DOMAIN dataTable.runs, seed \in {0} : advance(n, seed)
    \/ \E n \in DOMAIN dataTable.runs, seed \in {0} : resume(n, seed)

SpecTable == InitBrowser /\ [][NextTable]_vars

\* The page changes the ticker list and the time range of the table while
\* earlier refreshes are under way; a list of one ticker is one batch, with
\* no pause.
NextRefresh ==
    \/ \E t \in {60001} : Tick(t) /\ Quiet
    \/ \E tickers \in {<<>>, <<"AAPL">>}, timeRange \in {"1D", "1W"} :
           render(tickers, timeRange) /\ Upto(MaxRequests)
    \/ \E n \in DOMAIN dataTable.runs, i \in DOMAIN inflight,
          resp \in QuoteResponsesBrief, seed \in {0} : respond(n, i, resp, seed)
    \/ \E n \in DOMAIN dataTable.runs, seed \in {0} :
           advance(n, seed) /\ Upto(MaxRequests)

SpecRefresh == InitBrowser /\ [][NextRefresh]_vars

\* ------------------------------------------------------------------ claims
\* C1 (as stated): whenever the most recent operation is a getQuote(symbol)
\* that returned a Quote and getQuote(symbol) is called again less than 60 s
\* after that call was made, the second call issues no upstream call, leaves
\* the counter as it was and returns the same Quote.
C1_AnyCallWithin60sOfASuccessIsCached ==
    [][\A symbol \in Symbols :
          (/\ returned.op = "getQuote"
           /\ returned.status = "value"
           /\ returned.key = symbol
           /\ now - returned.at < 60000
           /\ getQuote(symbol))
          => (/\ inflight' = inflight
              /\ requestCount' = requestCount
              /\ returned'.status = "value"
              /\ returned'.val = returned.val)]_vars

\* C1 (amended): a getQuote(symbol) whose upstream call succeeds stores the
\* Quote it returns, stamped with the instant that call was made; and every
\* getQuote(symbol) made while that entry is less than 60 s old issues no
\* upstream call, leaves total, minute and lastReset as they were, and returns
\* the stored Quote.
C1_QuoteServedFromCacheWithinTtl ==
    [][/\ \A i \in DOMAIN inflight, resp \in QuoteResponses :
            (RespondGetQuote(i, resp) /\ ~quoteFails(resp))
            => (/\ returned'.status = "value"
                /\ inflight[i].key \in DOMAIN quoteCache'
                /\ quoteCache'[inflight[i].key].data = returned'.val
                /\ quoteCache'[inflight[i].key].timestamp = inflight[i].at)
       /\ \A symbol \in Symbols :
            (/\ symbol \in DOMAIN quoteCache
             /\ now - quoteCache[symbol].timestamp < 60000
             /\ getQuote(symbol))
            => (/\ inflight' = inflight
                /\ requestCount' = requestCount
                /\ quoteCache' = quoteCache
                /\ returned'.status = "value"
                /\ returned'.val = quoteCache[symbol].data)]_vars

\* C1 witness: a call made 59999 ms after the entry was stamped was served
\* from the cache, with one request counted in all.
C1_Witness ==
    \E symbol \in DOMAIN quoteCache :
        /\ returned.op = "getQuote"
        /\ returned.key = symbol
        /\ returned.status = "value"
        /\ returned.val = quoteCache[symbol].data
        /\ returned.at - quoteCache[symbol].timestamp = 59999
        /\ requestCount.total = 1
        /\ inflight = <<>>

\* C2 (as stated): in each of the three caches a fetch is served from the
\* entry iff the entry is present and less than its TTL old (quote 60000 ms,
\* search 300000 ms, history 3600000 ms); every other fetch is a miss that
\* issues a new upstream call and increments the request counter.
C2_EveryMissIssuesAnUpstreamCall ==
    [][LET aged(cache, key, ttl) ==
               key \in DOMAIN cache /\ now - cache[key].timestamp < ttl
           served(cache, key) ==
               /\ returned'.status = "value"
               /\ key \in DOMAIN cache
               /\ returned'.val = cache[key].data
               /\ inflight' = inflight
               /\ requestCount' = requestCount
           called(op) ==
               returned'.op = op /\ Len(inflight') >= Len(inflight)
           missed ==
               /\ Len(inflight') = Len(inflight) + 1
               /\ requestCount'.total > requestCount.total
       IN  /\ \A symbol \in Symbols :
                 (called("getQuote") /\ getQuote(symbol)) =>
                 IF aged(quoteCache, symbol, 60000)
                 THEN served(quoteCache, symbol)
                 ELSE ~served(quoteCache, symbol) /\ missed
           /\ \A query \in Queries :
                 (called("searchTickers") /\ searchTickers(query)) =>
                 IF aged(searchCache, query, 300000)
                 THEN served(searchCache, query)
                 ELSE ~served(searchCache, query) /\ missed
           /\ \A symbol \in Symbols, timeRange \in TimeRanges, seed \in Seeds :
                 (/\ called("getHistoricalData")
                  /\ getHistoricalData(symbol, timeRange, seed)) =>
                 IF aged(historicalCache, historicalCacheKey(symbol, timeRange), 3600000)
                 THEN served(historicalCache, historicalCacheKey(symbol, timeRange))
                 ELSE ~served(historicalCache, historicalCacheKey(symbol, timeRange)) /\ missed
      ]_vars

\* C2 (amended): in each of the three caches a fetch is served from the entry
\* iff the entry is present and less than its TTL old (quote 60000 ms, search
\* 300000 ms, history 3600000 ms); every other fetch is a miss that increments
\* the request counter.  A quote or search miss issues one upstream call; a
\* history miss issues one (the quote request for its anchor price) only when
\* the symbol's quote entry is absent or 60000 ms old or more, and otherwise
\* regenerates the series from the cached quote with no upstream call.
C2_ServedIffYoungerThanTtl ==
    [][LET aged(cache, key, ttl) ==
               key \in DOMAIN cache /\ now - cache[key].timestamp < ttl
           served(cache, key) ==
               /\ returned'.status = "value"
               /\ key \in DOMAIN cache
               /\ returned'.val = cache[key].data
               /\ inflight' = inflight
               /\ requestCount' = requestCount
           called(op) ==
               returned'.op = op /\ Len(inflight') >= Len(inflight)
           missed ==
               /\ Len(inflight') = Len(inflight) + 1
               /\ requestCount'.total > requestCount.total
       IN  /\ \A symbol \in Symbols :
                 (called("getQuote") /\ getQuote(symbol)) =>
                 IF aged(quoteCache, symbol, 60000)
                 THEN served(quoteCache, symbol)
                 ELSE ~served(quoteCache, symbol) /\ missed
           /\ \A query \in Queries :
                 (called("searchTickers") /\ searchTickers(query)) =>
                 IF aged(searchCache, query, 300000)
                 THEN served(searchCache, query)
                 ELSE ~served(searchCache, query) /\ missed
           /\ \A symbol \in Symbols, timeRange \in TimeRanges, seed \in Seeds :
                 (/\ called("getHistoricalData")
                  /\ getHistoricalData(symbol, timeRange, seed)) =>
                 IF aged(historicalCache, historicalCacheKey(symbol, timeRange), 3600000)
                 THEN served(historicalCache, historicalCacheKey(symbol, timeRange))
                 ELSE /\ ~served(historicalCache, historicalCacheKey(symbol, timeRange))
                      /\ requestCount'.total > requestCount.total
                      /\ IF aged(quoteCache, symbol, 60000)
                         THEN /\ inflight' = inflight
                              /\ historicalCache'[historicalCacheKey(symbol, timeRange)].timestamp = now
                         ELSE Len(inflight') = Len(inflight) + 1
      ]_vars

\* C2 witness: at 3600000 ms a history fetch found its quote in the cache,
\* regenerated the series with no upstream call and counted a request.
C2_Witness ==
    \E symbol \in DOMAIN quoteCache, key \in DOMAIN historicalCache :
        /\ now = 3600000
        /\ returned.op = "getHistoricalData"
        /\ returned.key = key
        /\ key = historicalCacheKey(symbol, "1W")
        /\ returned.status = "value"
        /\ historicalCache[key].timestamp = 3600000
        /\ returned.val = historicalCache[key].data
        /\ quoteCache[symbol].timestamp = 3600000
        /\ inflight = <<>>
        /\ requestCount.total = 4

\* C3: every upstream request carries, as its credential, the key that
\* getApiKey() returns at the instant the request is issued: the value last
\* given to updateApiKey when that was non-empty, the built-in default after
\* updateApiKey("").
C3_RequestCarriesStoredKey ==
    [][Len(inflight') > Len(inflight)
       => inflight'[Len(inflight')].token = getApiKey']_vars

\* C3: the state the code reaches after updateApiKey("k1") and a quote fetch;
\* the request in flight carries the key read when the module was loaded.
C3_StaleKeySent ==
    /\ window
    /\ STORAGE_KEY \in DOMAIN localStorage
    /\ localStorage[STORAGE_KEY] = "k1"
    /\ FINNHUB_API_KEY = "k1"
    /\ Len(inflight) > 0
    /\ inflight[Len(inflight)].token = DEFAULT_API_KEY
    /\ inflight[Len(inflight)].at = requestCount.lastReset

C5_RecordCountsAndRollsWindow ==
    [][record =>
         /\ requestCount'.total = requestCount.total + 1
         /\ IF now - requestCount.lastReset > 60000
            THEN /\ requestCount'.minute = 1
                 /\ requestCount'.lastReset = now
            ELSE /\ requestCount'.minute = requestCount.minute + 1
                 /\ requestCount'.lastReset = requestCount.lastReset]_vars

\* C5 witness: a request recorded exactly 60000 ms after lastReset was counted
\* in the running window.
C5_Witness ==
    /\ returned.op = "trackRequest"
    /\ now - requestCount.lastReset = 60000
    /\ requestCount.minute = 2
    /\ requestCount.total = 2

\* C6: getRemainingRequests() equals max(0, 60 - minute) and so lies in 0..60
\* (0 once minute has reached 60, 61 included); reading it returns that value
\* and changes nothing; and a trackRequest() made more than 60000 ms after
\* lastReset leaves minute = 1 and getRemainingRequests() = 59.
C6_RemainingIsClampedDifference ==
    /\ [](/\ getRemainingRequests \in 0..60
          /\ requestCount.minute <= 60
             => getRemainingRequests = 60 - requestCount.minute
          /\ requestCount.minute >= 60 => getRemainingRequests = 0)
    /\ [][/\ readRemainingRequests
             => /\ returned'.val \in 0..60
                /\ returned'.val = getRemainingRequests'
                /\ requestCount' = requestCount
          /\ (record /\ now - requestCount.lastReset > 60000)
             => (requestCount'.minute = 1 /\ getRemainingRequests' = 59)]_vars

\* C6 witness: 61 requests recorded in one window, and the read returned 0.
C6_Witness ==
    /\ returned.op = "getRemainingRequests"
    /\ returned.val = 0
    /\ requestCount.minute = 61
    /\ now - requestCount.lastReset <= 60000

\* C7: in every reachable state 0 <= minute <= total, and no step (a recorded
\* request, a change of key, a fetch, a response, clearCaches) decreases total.
C7_MinuteWithinTotalAndTotalMonotonic ==
    /\ [](0 <= requestCount.minute /\ requestCount.minute <= requestCount.total)
    /\ [][requestCount'.total >= requestCount.total]_vars

\* C7 witness: requests were counted, then the key was changed, which reset
\* minute and kept total.
C7_Witness ==
    /\ returned.op = "handleSaveApiKey"
    /\ requestCount.total = 2
    /\ requestCount.minute = 0
    /\ Len(inflight) > 0

\* C8: updateApiKey(k) with a non-empty k sets minute to 0 and lastReset to
\* now whatever the counter held, so getRemainingRequests() is 60 right after.
C8_SetKeyResetsWindow ==
    [][\A apiKey \in CustomKeys :
          handleSaveApiKey(apiKey)
          => /\ requestCount'.minute = 0
             /\ requestCount'.lastReset = now
             /\ requestCount'.total = requestCount.total
             /\ getRemainingRequests' = 60]_vars

\* C8 witness: the key was set after requests had been counted in an earlier
\* window.
C8_Witness ==
    /\ returned.op = "handleSaveApiKey"
    /\ returned.key \in CustomKeys
    /\ requestCount.total > 0
    /\ requestCount.minute = 0
    /\ requestCount.lastReset = now
    /\ now > 0
    /\ getRemainingRequests = 60

\* C9: the counter is reset (minute = 0, lastReset = now) exactly when the key
\* that getApiKey() returns changes: every step that changes it, a storage
\* helper included, performs the reset, and a call of updateApiKey,
\* saveApiKey or clearApiKey that leaves it unchanged performs none.
C9_ResetExactlyWhenKeyChanges ==
    [][LET reset == /\ requestCount'.minute = 0
                    /\ requestCount'.lastReset = now
           keyOp == returned'.op \in {"handleSaveApiKey", "saveApiKey",
                                      "clearApiKey"}
       IN  /\ getApiKey' # getApiKey => reset
           /\ (keyOp /\ getApiKey' = getApiKey) => requestCount' = requestCount
      ]_vars

\* C9: the key was changed by saveApiKey and the window still holds the
\* requests counted under the key before.
C9_KeyChangedWithoutReset ==
    /\ returned.op = "saveApiKey"
    /\ getApiKey = returned.key
    /\ FINNHUB_API_KEY # getApiKey
    /\ requestCount.minute > 0

\* C10: after updateApiKey("") the stored entry is gone, getApiKey() returns
\* the built-in default, and neither the page header nor the table shows the
\* using-your-own-key indicator.
C10_EmptyKeyRestoresDefault ==
    [][handleSaveApiKey("")
       => /\ STORAGE_KEY \notin DOMAIN localStorage'
          /\ getApiKey' = DEFAULT_API_KEY
          /\ FINNHUB_API_KEY' = DEFAULT_API_KEY
          /\ ~TableIsUsingCustomKey'
          /\ ~HomeIsUsingCustomKey']_vars

\* C10: the state after updateApiKey(""): default key in force, and the page
\* header showing the indicator.
C10_IndicatorShownOnDefault ==
    /\ returned.op = "handleSaveApiKey"
    /\ returned.key = ""
    /\ getApiKey = DEFAULT_API_KEY
    /\ FINNHUB_API_KEY = DEFAULT_API_KEY
    /\ HomeIsUsingCustomKey

\* C11 (as stated): getApiKey() is the stored value when one (a non-empty
\* string) is present and the built-in default otherwise; after updateApiKey(k) with a non-empty k,
\* getApiKey() returns k, and goes on returning it until the stored key is
\* written again; without a window getApiKey() is the default.
C11_GetReturnsTheKeyLastSet ==
    /\ [](/\ getApiKey = IF /\ STORAGE_KEY \in DOMAIN localStorage
                            /\ localStorage[STORAGE_KEY] # ""
                         THEN localStorage[STORAGE_KEY] ELSE DEFAULT_API_KEY
          /\ ~window => getApiKey = DEFAULT_API_KEY)
    /\ [][/\ \A apiKey \in CustomKeys :
                handleSaveApiKey(apiKey) => getApiKey' = apiKey
          /\ getApiKey' # getApiKey
             => returned'.op \in {"handleSaveApiKey", "saveApiKey",
                                  "clearApiKey"}]_vars

\* C11 (amended): getApiKey() is the stored value when there is a window and
\* a non-empty stored value, and the built-in default otherwise, so without a window it
\* is the default even after updateApiKey(k); with a window, after
\* updateApiKey(k) with a non-empty k, getApiKey() returns k, and goes on
\* returning it until the stored key is written again.
C11_GetReturnsTheStoredKey ==
    /\ [](/\ getApiKey = IF /\ window
                            /\ STORAGE_KEY \in DOMAIN localStorage
                            /\ localStorage[STORAGE_KEY] # ""
                         THEN localStorage[STORAGE_KEY] ELSE DEFAULT_API_KEY
          /\ ~window => getApiKey = DEFAULT_API_KEY)
    /\ [][/\ \A apiKey \in CustomKeys :
                handleSaveApiKey(apiKey)
                => getApiKey' = IF window THEN apiKey ELSE DEFAULT_API_KEY
          /\ getApiKey' # getApiKey
             => returned'.op \in {"handleSaveApiKey", "saveApiKey",
                                  "clearApiKey"}]_vars

\* C11 witness: with a window, the key set earlier is still the one returned
\* a minute and a counted request later.
C11_Witness ==
    /\ window
    /\ returned.op = "trackRequest"
    /\ now = 60001
    /\ getApiKey = "k1"
    /\ FINNHUB_API_KEY = "k1"
    /\ currentApiKey = "k1"
    /\ requestCount.lastReset = 60000

\* C12: whenever getHistoricalData generates a series (a cache miss whose
\* quote is available), for every label, "1D" and an unknown one included,
\* the series has at least two points, its last two points both close at the
\* price of the quote that call obtained, its final point is dated at the
\* instant the series is returned, and it is the series stored.
C12_SeriesEndsTwiceAtAnchorNow ==
    [][(returned'.op = "getHistoricalData" /\ historicalCache' # historicalCache)
       => \E symbol \in Symbols, timeRange \in TimeRanges :
              LET dataPoints == returned'.val
                  n == Len(dataPoints)
                  cacheKey == historicalCacheKey(symbol, timeRange)
                  anchor == quoteCache'[symbol].data.price
              IN  /\ returned'.key = cacheKey
                  /\ returned'.status = "value"
                  /\ n >= 2
                  /\ dataPoints[n].close = anchor
                  /\ dataPoints[n - 1].close = anchor
                  /\ dataPoints[n].date = DateAt(now')
                  /\ historicalCache'[cacheKey].data = dataPoints]_vars

\* C12 witness: a series for the unknown label generated on the 31st from a
\* quote that arrived a minute after the call, with more than two points.
C12_Witness ==
    /\ returned.op = "getHistoricalData"
    /\ returned.status = "value"
    /\ returned.key = historicalCacheKey("AAPL", "5D")
    /\ loadDay = DaysFromCivil(2025, 3, 31)
    /\ returned.at = 0
    /\ now = 60000
    /\ Len(returned.val) > 2
    /\ returned.val[Len(returned.val)].close = 400
    /\ returned.val[Len(returned.val)].date = DateAt(60000)
    /\ returned.val[Len(returned.val) - 1].close = 400
    /\ returned.val[Len(returned.val) - 2].close # 400

\* C13: every series getHistoricalData has generated is chronologically
\* ascending: each point is dated at or before the next one, the final
\* current-time point included, for every label.
C13_SeriesAscending ==
    \A cacheKey \in DOMAIN historicalCache :
        LET dataPoints == historicalCache[cacheKey].data
        IN  \A i \in 1 .. Len(dataPoints) - 1 :
                DateLeq(dataPoints[i].date, dataPoints[i + 1].date)

\* C13: an "All Time" series whose last generated point is dated after the
\* instant it was returned at, while every other stored series is ascending.
C13_AllTimePointInTheFuture ==
    /\ returned.op = "getHistoricalData"
    /\ returned.status = "value"
    /\ returned.key = historicalCacheKey("AAPL", "All Time")
    /\ LET dataPoints == returned.val
           n == Len(dataPoints)
       IN  /\ dataPoints[n].date = DateAt(now)
           /\ ~DateLeq(dataPoints[n - 1].date, dataPoints[n].date)
           /\ dataPoints[n - 1].date.day > loadDay
           /\ \A i \in 1 .. n - 2 :
                  DateLeq(dataPoints[i].date, dataPoints[i + 1].date)
    /\ \A cacheKey \in DOMAIN historicalCache :
           cacheKey # historicalCacheKey("AAPL", "All Time")
           => \A i \in 1 .. Len(historicalCache[cacheKey].data) - 1 :
                  DateLeq(historicalCache[cacheKey].data[i].date,
                          historicalCache[cacheKey].data[i + 1].date)

\* C14: when the quote awaited by getHistoricalData is unavailable (its
\* upstream call fails), getHistoricalData returns the empty series, stores
\* nothing in either cache and counts nothing more; and no stored series is
\* ever empty, so the next call for that symbol and label generates again.
C14_NoQuoteNoSeries ==
    /\ [](\A cacheKey \in DOMAIN historicalCache :
              historicalCache[cacheKey].data # <<>>)
    /\ [][\A i \in DOMAIN inflight, resp \in QuoteResponsesHistory,
             seed \in Seeds :
             (/\ \/ resp.fetch = "reject"
                 \/ resp.status # 200
                 \/ resp.body \in {"invalid", "null"}
                 \/ resp.error
              /\ returned'.op = "getHistoricalData"
              /\ RespondHistorical(i, resp, seed))
             => (/\ returned'.status = "nodata"
                 /\ returned'.val = <<>>
                 /\ historicalCache' = historicalCache
                 /\ quoteCache' = quoteCache
                 /\ requestCount' = requestCount
                 /\ Len(inflight') = Len(inflight) - 1)]_vars

\* C14 witness: a second getHistoricalData for the label has just come back
\* empty like the first: four requests counted, nothing stored.
C14_Witness ==
    /\ returned.op = "getHistoricalData"
    /\ returned.status = "nodata"
    /\ returned.at = 60000
    /\ historicalCache = EmptyRecord
    /\ quoteCache = EmptyRecord
    /\ inflight = <<>>
    /\ requestCount.total = 4

\* C15: every non-empty series getHistoricalData returns, freshly generated
\* or served from the history cache, ends at the most recent known price of
\* its symbol, the price of the symbol's entry in the quote cache.
C15_SeriesEndsAtLatestQuote ==
    [][\A symbol \in Symbols, timeRange \in TimeRanges :
          (/\ returned'.op = "getHistoricalData"
           /\ returned'.key = historicalCacheKey(symbol, timeRange)
           /\ returned'.status = "value"
           /\ returned'.val # <<>>
           /\ symbol \in DOMAIN quoteCache')
          => returned'.val[Len(returned'.val)].close
                 = quoteCache'[symbol].data.price]_vars

\* C15: a series generated from a quote of 200 was served from the history
\* cache a minute later, after the quote had been fetched again at 400.
C15_StaleSeriesServed ==
    /\ returned.op = "getHistoricalData"
    /\ returned.status = "value"
    /\ returned.at = 60000
    /\ returned.key \in DOMAIN historicalCache
    /\ historicalCache[returned.key].timestamp = 0
    /\ returned.val = historicalCache[returned.key].data
    /\ returned.val[Len(returned.val)].close = 200
    /\ returned.key = historicalCacheKey("AAPL", "1D")
    /\ quoteCache["AAPL"].data.price = 400
    /\ quoteCache["AAPL"].timestamp = 60000

\* ------------------------------------------------------------------ C16
\* The points of a stored series before its final, current-time point.
generatedPoints(dataPoints) == SubSeq(dataPoints, 1, Len(dataPoints) - 1)

\* every point of dataPoints is n days after the one before it, at the same
\* time of day
DaysApart(dataPoints, n) ==
    \A i \in 1 .. Len(dataPoints) - 1 :
        dataPoints[i + 1].date = addDays(dataPoints[i].date, n)

\* every point of dataPoints is n hours after the one before it, on the same day
HoursApart(dataPoints, n) ==
    \A i \in 1 .. Len(dataPoints) - 1 :
        /\ dataPoints[i + 1].date.day = dataPoints[i].date.day
        /\ dataPoints[i + 1].date.ms = dataPoints[i].date.ms + n * HOUR_MS

\* every point of dataPoints falls on the same day of the month as the one
\* before it, in the month after, at the same time of day
MonthsApart(dataPoints) ==
    \A i \in 1 .. Len(dataPoints) - 1 :
        LET a == CivilFromDays(dataPoints[i].date.day)
            b == CivilFromDays(dataPoints[i + 1].date.day)
        IN  /\ 12 * b.year + b.month = 12 * a.year + a.month + 1
            /\ b.date = a.date
            /\ dataPoints[i + 1].date.ms = dataPoints[i].date.ms

\* the series is dense up to the call: its last generated point is at or
\* before toDate and less than n days before it
ReachesWithin(dataPoints, toDate, n) ==
    /\ DateLeq(dataPoints[Len(dataPoints)].date, toDate)
    /\ ~DateLeq(addDays(dataPoints[Len(dataPoints)].date, n), toDate)

\* The calendar day the first generated point of a series falls on, for a
\* call on 15 March 2025 and for one on 31 March 2025.
FirstDay(timeRange, toDate) ==
    IF toDate.day = DaysFromCivil(2025, 3, 15)
    THEN CASE timeRange = "1D" -> DaysFromCivil(2025, 3, 14)
           [] timeRange = "1W" -> DaysFromCivil(2025, 3, 8)
           [] timeRange = "3M" -> DaysFromCivil(2024, 12, 15)
           [] timeRange = "1Y" -> DaysFromCivil(2024, 3, 15)
           [] timeRange = "All Time" -> DaysFromCivil(2020, 4, 15)
           [] OTHER -> DaysFromCivil(2025, 2, 15)
    ELSE CASE timeRange = "1D" -> DaysFromCivil(2025, 3, 30)
           [] timeRange = "1W" -> DaysFromCivil(2025, 3, 24)
           [] timeRange = "3M" -> DaysFromCivil(2024, 12, 31)
           [] timeRange = "1Y" -> DaysFromCivil(2024, 3, 31)
           [] timeRange = "All Time" -> DaysFromCivil(2020, 5, 1)
           [] OTHER -> DaysFromCivil(2025, 3, 3)

C17_HistoryKeyedBySymbolAndLabel ==
    /\ [](/\ \A cacheKey \in DOMAIN historicalCache :
                  \E symbol \in Symbols, timeRange \in {"1D", "1W"} :
                      cacheKey = historicalCacheKey(symbol, timeRange)
          /\ \A symbol \in Symbols, timeRange \in {"1D", "1W"} :
                  historicalCacheKey(symbol, timeRange) \in DOMAIN historicalCache
                  => Len(historicalCache[historicalCacheKey(symbol, timeRange)].data)
                         = IF timeRange = "1D" THEN 13 ELSE 9)
    /\ [][\A symbol \in Symbols, timeRange \in {"1D", "1W"} :
             LET cacheKey == historicalCacheKey(symbol, timeRange)
                 hit == /\ cacheKey \in DOMAIN historicalCache
                        /\ now - historicalCache[cacheKey].timestamp < 3600000
             IN  (/\ returned'.op = "getHistoricalData"
                  /\ returned'.key = cacheKey
                  /\ Len(inflight') >= Len(inflight)
                  /\ now' = now)
                 => /\ hit => /\ returned'.status = "value"
                              /\ returned'.val = historicalCache[cacheKey].data
                              /\ requestCount' = requestCount
                              /\ inflight' = inflight
                              /\ historicalCache' = historicalCache
                              /\ quoteCache' = quoteCache
                    /\ ~hit => /\ requestCount'.total > requestCount.total
                               /\ \/ /\ returned'.status = "pending"
                                     /\ Len(inflight') = Len(inflight) + 1
                                     /\ historicalCache' = historicalCache
                                  \/ /\ returned'.status = "value"
                                     /\ inflight' = inflight
                                     /\ cacheKey \in DOMAIN historicalCache'
                                     /\ historicalCache'[cacheKey].data = returned'.val
                                     /\ historicalCache'[cacheKey].timestamp = now
                               /\ \A other \in DOMAIN historicalCache :
                                      other # cacheKey =>
                                      /\ other \in DOMAIN historicalCache'
                                      /\ historicalCache'[other] = historicalCache[other]
         ]_vars

\* C17 witness: the "1D" and the "1W" series of AAPL are stored side by side
\* under "AAPL-1D" and "AAPL-1W", and a minute after both were generated a
\* call for "1W" has been served the stored series.
C17_Witness ==
    /\ DOMAIN historicalCache = {"AAPL-1D", "AAPL-1W"}
    /\ historicalCache["AAPL-1D"].timestamp = 0
    /\ historicalCache["AAPL-1W"].timestamp = 0
    /\ historicalCache["AAPL-1D"].data # historicalCache["AAPL-1W"].data
    /\ now = 60000
    /\ returned.op = "getHistoricalData"
    /\ returned.key = "AAPL-1W"
    /\ returned.at = 60000
    /\ returned.val = historicalCache["AAPL-1W"].data
    /\ requestCount.total = 3
    /\ inflight = <<>>

\* ------------------------------------------------------------------ C18
\* C18: clearCaches() leaves the quote, search and history caches empty and
\* changes neither the request counter (total, minute, lastReset) nor the
\* credential (the key in use, the key requests carry, the stored key) nor
\* the calls in flight; and the fetch that follows it, for whatever key, is a
\* miss: it counts a request and issues an upstream call.
C18_ClearCachesEmptiesOnlyTheCaches ==
    /\ [](returned.op = "clearCaches"
          => /\ quoteCache = EmptyRecord
             /\ searchCache = EmptyRecord
             /\ historicalCache = EmptyRecord)
    /\ [][(returned'.op = "clearCaches" /\ now' = now)
          => /\ quoteCache' = EmptyRecord
             /\ searchCache' = EmptyRecord
             /\ historicalCache' = EmptyRecord
             /\ requestCount' = requestCount
             /\ FINNHUB_API_KEY' = FINNHUB_API_KEY
             /\ API_KEY' = API_KEY
             /\ currentApiKey' = currentApiKey
             /\ localStorage' = localStorage
             /\ inflight' = inflight]_vars
    /\ [][(/\ returned.op = "clearCaches"
           /\ returned'.op \in {"getQuote", "searchTickers", "getHistoricalData",
                                "calculatePriceChanges"}
           /\ Len(inflight') >= Len(inflight))
          => /\ returned'.status = "pending"
             /\ Len(inflight') = Len(inflight) + 1
             /\ inflight'[Len(inflight')].key = returned'.key
                \/ returned'.op = "getHistoricalData"
             /\ requestCount'.total > requestCount.total]_vars

\* C18 witness: clearCaches() has just run in a browser where a custom key
\* is stored, two requests have been counted in the current window and one
\* call is still in flight: the caches are empty, everything else is kept.
C18_Witness ==
    /\ returned.op = "clearCaches"
    /\ returned.at = 60000
    /\ quoteCache = EmptyRecord
    /\ searchCache = EmptyRecord
    /\ historicalCache = EmptyRecord
    /\ requestCount = [total |-> 2, minute |-> 2, lastReset |-> 60000]
    /\ Len(inflight) = 1
    /\ FINNHUB_API_KEY = "k1"
    /\ window
    /\ getApiKey = "k1"

\* ------------------------------------------------------------------ C19
\* C19: a getQuote(symbol) called while an earlier getQuote(symbol) is still
\* in flight and the symbol is not cached misses like the first: it counts
\* one request, issues its own upstream call and leaves the cache alone.
\* Every getQuote call that resolves with a quote writes the symbol's cache
\* entry, over whatever entry is there, so the entry left is that of the
\* call that resolved last, whichever was made first; a call that resolves
\* with no data leaves the entry as it was.
C19_OverlappingQuotesBothFetchLastWriteWins ==
    /\ [][\A symbol \in Symbols :
             (/\ returned'.op = "getQuote"
              /\ returned'.key = symbol
              /\ Len(inflight') >= Len(inflight)
              /\ now' = now
              /\ symbol \notin DOMAIN quoteCache
              /\ \E i \in DOMAIN inflight :
                     inflight[i].key = symbol /\ inflight[i].caller = "getQuote")
             => /\ returned'.status = "pending"
                /\ requestCount'.total = requestCount.total + 1
                /\ inflight' = Append(inflight, inflight'[Len(inflight')])
                /\ inflight'[Len(inflight')].key = symbol
                /\ inflight'[Len(inflight')].endpoint = "quote"
                /\ quoteCache' = quoteCache]_vars
    /\ [][(returned'.op = "getQuote" /\ Len(inflight') < Len(inflight))
          => IF returned'.status = "value"
             THEN /\ returned'.key \in DOMAIN quoteCache'
                  /\ quoteCache'[returned'.key].data = returned'.val
                  /\ quoteCache'[returned'.key].timestamp = returned'.at
             ELSE quoteCache' = quoteCache]_vars

\* C19 witness: two calls overlap, made at 0 and 1 ms while nothing was
\* cached: both were counted, the second has resolved and written the entry,
\* the first is still in flight and will write over it.
C19_Witness ==
    /\ now = 1
    /\ requestCount.total = 2
    /\ Len(inflight) = 1
    /\ inflight[1].key = "AAPL"
    /\ inflight[1].caller = "getQuote"
    /\ inflight[1].at = 0
    /\ returned.op = "getQuote"
    /\ returned.status = "value"
    /\ returned.at = 1
    /\ quoteCache["AAPL"].timestamp = 1
    /\ quoteCache["AAPL"].data = returned.val

\* ------------------------------------------------------------------ C20
\* C20: every getQuote, getHistoricalData, calculatePriceChanges or
\* searchTickers call adds to the counter's total exactly the number of
\* upstream calls it issues, nothing when it is served from a cache, so that
\* total counts the upstream calls.
C20_TotalCountsUpstreamCalls ==
    [][(/\ returned'.op \in {"getQuote", "getHistoricalData",
                             "calculatePriceChanges", "searchTickers"}
        /\ Len(inflight') >= Len(inflight)
        /\ now' = now)
       => requestCount'.total - requestCount.total
              = Len(inflight') - Len(inflight)]_vars

\* C20: at the first instant, with a single upstream call issued since the
\* page loaded (the quote request whose answer is cached), the counter shows
\* two requests: getHistoricalData counted one of its own.
C20_HistoryCountedWithoutCall ==
    /\ now = 0
    /\ returned.op = "getHistoricalData"
    /\ returned.status = "value"
    /\ returned.key = "AAPL-1W"
    /\ DOMAIN quoteCache = {"AAPL"}
    /\ quoteCache["AAPL"].timestamp = 0
    /\ DOMAIN historicalCache = {"AAPL-1W"}
    /\ searchCache = EmptyRecord
    /\ inflight = <<>>
    /\ requestCount.total = 2

\* ------------------------------------------------------------------ C21
\* C21: the quota warning gates only the search field.  When the debounce
\* timer fires for a text of two characters or more with fewer than 5
\* requests remaining, the warning is shown and nothing is counted, called
\* or cached; every searchTickers call is made with at least 5 remaining.
\* getQuote and getHistoricalData are not gated: called with 0 remaining and
\* nothing fresh in their caches, they count their requests and issue the
\* upstream call all the same.
C21_QuotaGatesOnlySearch ==
    /\ [][\A query \in Queries \cup {"a"} :
             (/\ debounceTimer(query)
              /\ Len(query) >= 2
              /\ LIMIT - requestCount.minute < 5)
             => /\ returned'.op = "TickerSearch"
                /\ returned'.status = "error"
                /\ requestCount' = requestCount
                /\ inflight' = inflight
                /\ searchCache' = searchCache]_vars
    /\ [][(/\ returned'.op = "searchTickers"
           /\ Len(inflight') >= Len(inflight)
           /\ now' = now)
          => LIMIT - requestCount.minute >= 5]_vars
    /\ [][(/\ returned'.op = "getQuote"
           /\ Len(inflight') >= Len(inflight)
           /\ now' = now
           /\ requestCount.minute >= LIMIT
           /\ ~(/\ returned'.key \in DOMAIN quoteCache
                /\ now - quoteCache[returned'.key].timestamp < 60000))
          => /\ returned'.status = "pending"
             /\ Len(inflight') = Len(inflight) + 1
             /\ requestCount'.total = requestCount.total + 1]_vars
    /\ [][\A symbol \in Symbols :
             (/\ returned'.op = "getHistoricalData"
              /\ returned'.key = historicalCacheKey(symbol, "1W")
              /\ Len(inflight') >= Len(inflight)
              /\ now' = now
              /\ requestCount.minute >= LIMIT
              /\ ~(/\ returned'.key \in DOMAIN historicalCache
                   /\ now - historicalCache[returned'.key].timestamp < 3600000)
              /\ ~(/\ symbol \in DOMAIN quoteCache
                   /\ now - quoteCache[symbol].timestamp < 60000))
             => /\ returned'.status = "pending"
                /\ Len(inflight') = Len(inflight) + 1
                /\ requestCount'.total = requestCount.total + 2]_vars

\* C21 witness: with 60 requests counted in the window, none remaining,
\* getQuote was called and its upstream call is in flight.
C21_Witness ==
    /\ returned.op = "getQuote"
    /\ returned.status = "pending"
    /\ requestCount = [total |-> 61, minute |-> 61, lastReset |-> 0]
    /\ getRemainingRequests = 0
    /\ Len(inflight) = 1
    /\ inflight[1].endpoint = "quote"
    /\ inflight[1].caller = "getQuote"

\* ------------------------------------------------------------------ C22
\* C22: every entry written to the quote, search or history cache carries as
\* its timestamp the time at which it is written, so that it is served for a
\* full TTL from that moment.
C22_EntryStampedWhenWritten ==
    [][/\ \A key \in DOMAIN quoteCache' :
              (key \notin DOMAIN quoteCache \/ quoteCache'[key] # quoteCache[key])
              => quoteCache'[key].timestamp = now'
       /\ \A key \in DOMAIN searchCache' :
              (key \notin DOMAIN searchCache \/ searchCache'[key] # searchCache[key])
              => searchCache'[key].timestamp = now'
       /\ \A key \in DOMAIN historicalCache' :
              (key \notin DOMAIN historicalCache
               \/ historicalCache'[key] # historicalCache[key])
              => historicalCache'[key].timestamp = now'
      ]_vars

\* C22: getQuote was called at 0 ms; at 60000 ms a search was started and
\* then the quote arrived: the entry just written is stamped 0 and is
\* already a full TTL old.
C22_EntryStampedWithCallTime ==
    /\ now = 60000
    /\ requestCount.total = 2
    /\ Len(inflight) = 1
    /\ inflight[1].endpoint = "search"
    /\ inflight[1].at = 60000
    /\ returned.op = "getQuote"
    /\ returned.status = "value"
    /\ returned.at = 0
    /\ quoteCache["AAPL"].timestamp = 0
    /\ quoteCache["AAPL"].data = returned.val
    /\ ~isFresh(quoteCache, "AAPL", now, CACHE_EXPIRY_QUOTE)

\* ------------------------------------------------------------------ C23
\* C23: a searchTickers(query) call that the upstream answers successfully
\* returns the entries of the answer that are not of type "crypto" or whose
\* symbol contains "/", all of them and in the order of the answer, and
\* stores that list under the query; a call for the same query less than
\* 300000 ms after that call returns the stored list with no request counted
\* and no upstream call.
C23_SearchFiltersAndCaches ==
    /\ [][\A i \in DOMAIN inflight, resp \in SearchResponses :
             (/\ returned'.op = "searchTickers"
              /\ Len(inflight') < Len(inflight)
              /\ RespondSearch(i, resp)
              /\ resp.fetch = "ok" /\ resp.status = 200 /\ resp.body = "object"
              /\ resp.hasResult /\ ~resp.error)
             => LET result == resp.result
                    kept == returned'.val
                    valid == {j \in DOMAIN result :
                                 \/ result[j].type # "crypto"
                                 \/ \E n \in DOMAIN result[j].symbol :
                                        result[j].symbol[n] = "/"}
                IN  /\ returned'.status = "value"
                    /\ Len(kept) = Cardinality(valid)
                    /\ \A j \in valid :
                           kept[Cardinality({k \in valid : k <= j})] = result[j]
                    /\ inflight[i].key \in DOMAIN searchCache'
                    /\ searchCache'[inflight[i].key].data = kept]_vars
    /\ [][\A query \in Queries :
             (/\ returned'.op = "searchTickers"
              /\ returned'.key = query
              /\ Len(inflight') >= Len(inflight)
              /\ now' = now
              /\ query \in DOMAIN searchCache
              /\ now - searchCache[query].timestamp < 300000)
             => /\ returned'.status = "value"
                /\ returned'.val = searchCache[query].data
                /\ inflight' = inflight
                /\ requestCount' = requestCount]_vars

\* C23 witness: the answer listed BTC (crypto), A (stock) and B/U (crypto);
\* a minute after the call the search is served the stored list A, B/U.
C23_Witness ==
    /\ returned.op = "searchTickers"
    /\ returned.status = "value"
    /\ returned.at = 60000
    /\ returned.key \in DOMAIN searchCache
    /\ searchCache[returned.key].timestamp = 0
    /\ returned.val = searchCache[returned.key].data
    /\ returned.val = <<[symbol |-> <<"A">>, type |-> "Common Stock"],
                        [symbol |-> <<"B", "/", "U">>, type |-> "crypto"]>>
    /\ inflight = <<>>
    /\ requestCount.total = 1

\* ------------------------------------------------------------------ C26
\* C26: once more than 60000 ms have passed since the window was started
\* (lastReset), a search attempt is not gated: the debounce timer firing for
\* a text of two characters or more calls searchTickers.
C26_GateReopensAfterAMinute ==
    [][\A query \in Queries \cup {"a"} :
          (/\ debounceTimer(query)
           /\ Len(query) >= 2
           /\ now - requestCount.lastReset > 60000)
          => /\ returned'.op = "searchTickers"
             /\ returned'.status \in {"pending", "value"}]_vars

\* C26: 56 requests were counted in the window started at 0; at 60001 ms,
\* with the window over and nothing counted since, the search is still gated.
C26_GateStaysClosed ==
    /\ now = 60001
    /\ requestCount = [total |-> 56, minute |-> 56, lastReset |-> 0]
    /\ returned.op = "TickerSearch"
    /\ returned.status = "error"
    /\ returned.at = 60001
    /\ inflight = <<>>

\* ------------------------------------------------------------------ C27
\* C27: with no key change, minute is at least the number of requests
\* counted in the preceding 60 s, so that a positive getRemainingRequests()
\* means fewer than 60 of them.  Here every request is counted between 2 ms
\* and 60001 ms, the last instant of the clock, so the requests counted in
\* the preceding 60 s are all of them, total.
C27_MinuteCoversTheLastSixtySeconds ==
    /\ requestCount.minute >= requestCount.total
    /\ getRemainingRequests > 0 => requestCount.total < LIMIT

\* C27: 59 requests were counted at 2 ms and three more at 60001 ms, 62
\* within 59999 ms; the third of these has just been counted, minute is 3
\* and 57 requests are reported as remaining.
C27_WindowUndercounts ==
    /\ now = 60001
    /\ returned.op = "trackRequest"
    /\ requestCount = [total |-> 62, minute |-> 3, lastReset |-> 60001]
    /\ getRemainingRequests = 57

\* ------------------------------------------------------------------ C28
\* C28: after clearCaches() no cache receives an entry produced by a fetch
\* that started before it.  An entry is stamped with the time its fetch
\* started, so in the step that follows a clearCaches() every entry present
\* is stamped at or after the time of the clearCaches().
C28_NoEntryFromBeforeTheClear ==
    [][returned.op = "clearCaches"
       => /\ \A key \in DOMAIN quoteCache' :
                 quoteCache'[key].timestamp >= returned.at
          /\ \A key \in DOMAIN searchCache' :
                 searchCache'[key].timestamp >= returned.at
          /\ \A key \in DOMAIN historicalCache' :
                 historicalCache'[key].timestamp >= returned.at]_vars

\* C28: clearCaches() has run at 60000 ms while the getQuote called at 0 ms,
\* the only request ever counted, is still in flight.
C28_ClearedWithFetchInFlight ==
    /\ returned.op = "clearCaches"
    /\ returned.at = 60000
    /\ now = 60000
    /\ quoteCache = EmptyRecord
    /\ requestCount.total = 1
    /\ Len(inflight) = 1
    /\ inflight[1].caller = "getQuote"
    /\ inflight[1].at = 0

\* ------------------------------------------------------------------ C29
\* C29 (as stated): after the module is loaded and after any updateApiKey
\* calls, FINNHUB_API_KEY is the key getApiKey() returns, with and without a
\* window.
C29_ActiveKeyIsTheStoredKey == FINNHUB_API_KEY = getApiKey

\* C29 (amended): every updateApiKey(newKey) leaves FINNHUB_API_KEY at newKey,
\* or at the default for the empty string.  Where there is a window this is
\* at all times the key getApiKey() returns; where there is none getApiKey()
\* returns the default at all times, whatever FINNHUB_API_KEY has been set to.
C29_ActiveKeyIsTheStoredKeyInABrowser ==
    /\ [](IF window THEN FINNHUB_API_KEY = getApiKey
                    ELSE getApiKey = DEFAULT_API_KEY)
    /\ [][(returned'.op = "handleSaveApiKey" /\ returned' # returned)
          => FINNHUB_API_KEY' = IF returned'.key # "" THEN returned'.key
                                ELSE DEFAULT_API_KEY]_vars

\* C29 witness: with no window, updateApiKey("k1") has made k1 the key in
\* memory while getApiKey() returns the default.
C29_Witness ==
    /\ ~window
    /\ returned.op = "handleSaveApiKey"
    /\ returned.key = "k1"
    /\ FINNHUB_API_KEY = "k1"
    /\ getApiKey = DEFAULT_API_KEY

C24_AtMostFiveFetchesInFlight ==
    /\ Len(inflight) <= batchSize
    /\ \A i, j \in DOMAIN inflight :
          /\ inflight[i].at = inflight[j].at
          /\ inflight[i].caller = inflight[j].caller

\* The refresh of six tickers has six quote fetches in flight, those of its
\* price changes.
C24_SixFetchesInFlight ==
    /\ Len(dataTable.runs) = 1
    /\ dataTable.runs[1].phase = "changes"
    /\ Cardinality(dataTable.runs[1].pending) = 6
    /\ Len(inflight) = 6
    /\ \A i \in DOMAIN inflight :
          /\ inflight[i].endpoint = "quote"
          /\ inflight[i].caller = "calculatePriceChanges"
          /\ inflight[i].at = now

\* C25: when no refresh of the table is under way, the rows and the chart
\* series displayed are those of the current ticker list and time range: every
\* row and every series is of a current ticker, and every series is one of
\* the current time range (12 generated points for "1D", 8 for "1W", or none
\* when the quote failed).  The code violates it: a refresh that resolves
\* late sets its rows and series over those of a newer refresh.
C25_DisplayIsOfTheLatestProps ==
    dataTable.runs = <<>>
    => /\ \A k \in DOMAIN dataTable.data :
             dataTable.data[k].symbol \in Range(dataTable.tickers)
       /\ DOMAIN dataTable.historicalData \subseteq Range(dataTable.tickers)
       /\ \A s \in DOMAIN dataTable.historicalData :
             Len(dataTable.historicalData[s])
                 \in {0, IF dataTable.timeRange = "1D" THEN 13 ELSE 9}

\* Every refresh has resolved, the time range is "1W", and the series
\* displayed for AAPL is the "1D" series of the refresh started before the
\* change, which resolved after the refresh of "1W".
C25_OlderRefreshDisplayed ==
    /\ dataTable.runs = <<>>
    /\ inflight = <<>>
    /\ dataTable.tickers = <<"AAPL">>
    /\ dataTable.timeRange = "1W"
    /\ DOMAIN dataTable.historicalData = {"AAPL"}
    /\ Len(dataTable.historicalData["AAPL"]) = 13
    /\ "AAPL-1W" \in DOMAIN historicalCache
    /\ Len(historicalCache["AAPL-1W"].data) = 9

====
